---- MODULE Spec2Model ----
(***************************************************************************)
(* Model of the coordination core of Gen-Authering:                        *)
(*   - agents/langgraph_coordinator.py  (LangGraphCoordinator)             *)
(*   - mcp.py                           (create_mcp_message, ...)          *)
(*   - utils/resilience.py              (CircuitBreaker)                   *)
(*   - utils/resilience.py              (retry_with_backoff, RateLimiter)  *)
(*   - agents/graph_spec.py, agents/nodes.py  (build_graph and its nodes)  *)
(* Spec, SpecCaller, SpecClient, SpecRegistry and SpecCycle are the        *)
(* coordinator state machine under different clients; SpecCB is the        *)
(* circuit breaker, SpecRetry the retry wrapper, SpecLimiter and           *)
(* SpecThreads the rate limiter, SpecPipeline the graph of build_graph,    *)
(* SpecAlias that graph given envelopes named by display names, and        *)
(* SpecGuarded a retry wrapper inside a circuit breaker (tools/).          *)
(***************************************************************************)
EXTENDS Integers, Sequences, FiniteSets, TLC

VARIABLES
    nodes,          \* self.nodes : name -> registered behaviour (NoFn = not registered)
    edges,          \* self.edges : name -> list of successor names (<<>> = key absent)
    msg_queue,      \* self.msg_queue, a FIFO of envelopes
    consumers_log,  \* self.consumers_log
    pc,             \* "idle", or "draining" while a run_once call is in progress
    nextId,         \* number of envelopes handed to send so far
    lastQuery,      \* value returned by the last get_conversation_events call
    runRaised,      \* TRUE iff the last run_once call ended by propagating an exception
    last,           \* what the last dispatch of the current run_once call did (observation only)
    raisedInRun,    \* TRUE iff a node raised during the current run_once call (observation only)
    cb,             \* CircuitBreaker fields: state, failure_count, last_failure_time
    now,            \* time.time(), in whole seconds
    call,           \* the breaker call in progress (position of the caller in _call)
    cbObs,          \* observation of the breaker's calls
    rt,             \* one call of a retry_with_backoff wrapper: configuration, position, clock
    rl,             \* a RateLimiter, its callers and the clock
    pl,             \* the pipeline of build_graph: collaborator calls, last node call
    reg             \* the last register_node call: name, behaviour, behaviour replaced (observation only)

coordVars == <<nodes, edges, msg_queue, consumers_log, pc, nextId, lastQuery, runRaised, last, raisedInRun>>
cbVars == <<cb, now, call, cbObs>>
nonCoordVars == <<cb, now, call, cbObs, rt, rl, pl, reg>>
nonBreakerVars == <<nodes, edges, msg_queue, consumers_log, pc, nextId, lastQuery, runRaised, last,
                    raisedInRun, rt, rl, pl, reg>>
nonRetryVars == <<nodes, edges, msg_queue, consumers_log, pc, nextId, lastQuery, runRaised, last,
                  raisedInRun, cb, now, call, cbObs, rl, pl, reg>>
nonLimiterVars == <<nodes, edges, msg_queue, consumers_log, pc, nextId, lastQuery, runRaised, last,
                    raisedInRun, cb, now, call, cbObs, rt, pl, reg>>
vars == <<nodes, edges, msg_queue, consumers_log, pc, nextId, lastQuery, runRaised, last, raisedInRun,
          cb, now, call, cbObs, rt, rl, pl, reg>>

----------------------------------------------------------------------------
(* Bounds *)

MaxEnvelopes == 3       \* envelopes submitted in one behaviour
MaxEdges == 2           \* add_edge calls in one behaviour
MaxThreshold == 2       \* largest failure_threshold a breaker is configured with
MaxRecovery == 2        \* largest recovery_timeout a breaker is configured with, in seconds
MaxTime == 6            \* the clock stops advancing here
MaxUnrecorded == 3      \* calls let through without a recorded outcome are counted up to here
MaxAttempts == 3        \* largest max_attempts a retry wrapper is configured with
MaxBaseDelay == 2       \* largest base_delay, in seconds
MaxDelay == 3           \* largest max_delay, in seconds
JitterSteps == 2        \* random.random() takes the values 0/JitterSteps .. (JitterSteps-1)/JitterSteps
MaxTokens == 5          \* largest max_tokens a rate limiter is built with
MaxRate == 2            \* largest refill_rate, in tokens per second
MaxAcquire == 2         \* largest number of tokens asked for in one acquire call
MaxSeconds == 2         \* the limiter's clock stops advancing here
MaxThreadCalls == 3     \* acquire calls started by concurrent callers in one behaviour
MaxSharedTokens == 2    \* largest max_tokens of a limiter shared by concurrent callers
MaxSharedSeconds == 1   \* the clock of a shared limiter stops advancing here
MaxPipelineEnvelopes == 24 \* envelopes of one run of the pipeline
MaxCycleEnvelopes == 6  \* envelopes of one run_once call on a graph set up with a cycle

Names == {"A", "B"}                 \* node names (the "name" field of an envelope)
Fns == {"f1"}                       \* behaviours that can be registered
Payloads == {"p1"}                  \* payloads ("content") of submitted and emitted envelopes
ResultPayloads == {"p2"}            \* payloads ("content") of the results nodes return
CallerCids == {1}                   \* conversation ids chosen by callers

----------------------------------------------------------------------------
(* Envelopes (mcp.py) *)

NoFn == "none"          \* self.nodes.get(name) is None
NoneCid == 0            \* conversation_id is None
AbsentCid == -1         \* metadata has no "conversation_id" key
UuidBase == 100         \* str(uuid.uuid4()): a value no caller chose, one per envelope
EmptyContent == "{}"    \* the {} default of result.get("content", {})

Uuid(k) == UuidBase + k

\* create_mcp_message(role, name, content, conversation_id); k is the number of
\* the envelope, from which the fresh uuid is drawn.
create_mcp_message(role, name, content, conversation_id, k) ==
    [ id      |-> k,
      role    |-> role,
      name    |-> name,
      content |-> content,
      hasMeta |-> TRUE,
      ts      |-> TRUE,
      cid     |-> IF conversation_id = NoneCid THEN Uuid(k) ELSE conversation_id,
      origin  |-> "ext",
      cause   |-> 0 ]

\* msg.get("metadata", {}).get("conversation_id")
get_conversation_id(msg) ==
    IF msg.hasMeta /\ msg.cid # AbsentCid THEN msg.cid ELSE NoneCid

----------------------------------------------------------------------------
(* LangGraphCoordinator (agents/langgraph_coordinator.py) *)

\* What one call node_fn(mcp_msg, self.send) can do: emit envelopes through the
\* send capability, then either return a result or raise an Exception.
NoContent == "absent"   \* the result has no "content" key
Results ==
    {[kind |-> "none", content |-> NoContent], [kind |-> "empty", content |-> NoContent]}
    \cup {[kind |-> "dict", content |-> c] : c \in ResultPayloads \cup {NoContent}}

\* The envelopes a node hands to coordinator_send in one call: none, or one (as
\* the nodes of agents/nodes.py do: one envelope for the next node or one error
\* envelope).
EmitSpecs == {<<>>} \cup {<<e>> : e \in [name : Names, content : Payloads]}

\* Python truthiness of the returned value: None and {} are falsy.
Truthy(result) == result.kind = "dict"

\* (mutant of ResultContent: the follow-up carries no payload)
ResultContentDropped(result) == EmptyContent

\* result.get("content", {})
ResultContent(result) ==
    IF result.content = NoContent THEN EmptyContent ELSE result.content

\* (mutant of send: the envelope is put at the head of the queue)
send_first(queue, mcp_msg, k) ==
    <<[mcp_msg EXCEPT !.id = k, !.hasMeta = TRUE,
                      !.ts = IF mcp_msg.hasMeta THEN @ ELSE TRUE,
                      !.cid = IF mcp_msg.hasMeta THEN @ ELSE NoneCid]>> \o queue

\* send: fill in metadata only when the envelope has none, then put on the queue.
\* k is the number of the submission (observation, not a field of the dict).
send(queue, mcp_msg, k) ==
    Append(queue,
           IF ~mcp_msg.hasMeta
           THEN [mcp_msg EXCEPT !.id = k, !.hasMeta = TRUE, !.ts = TRUE, !.cid = NoneCid]
           ELSE [mcp_msg EXCEPT !.id = k])

RECURSIVE SendAll(_, _, _)
SendAll(queue, msgs, k) ==
    IF msgs = <<>> THEN queue
    ELSE SendAll(send(queue, Head(msgs), k), Tail(msgs), k + 1)

\* (mutant of NodeEmits: the conversation id is not handed on)
NodeEmitsFresh(mcp_msg, emits, k) ==
    [i \in 1..Len(emits) |->
        [create_mcp_message("agent", emits[i].name, emits[i].content, NoneCid, k + i - 1)
            EXCEPT !.origin = "emit", !.cause = mcp_msg.id]]

\* The envelopes a node emits while handling mcp_msg: every node of the repository
\* builds them with create_mcp_message(..., conversation_id=get_conversation_id(msg)).
NodeEmits(mcp_msg, emits, k) ==
    [i \in 1..Len(emits) |->
        [create_mcp_message("agent", emits[i].name, emits[i].content,
                            get_conversation_id(mcp_msg), k + i - 1)
            EXCEPT !.origin = "emit", !.cause = mcp_msg.id]]

\* The follow-up envelope _dispatch builds for one edge target.
RoutedMessage(mcp_msg, next_node, result, k) ==
    [create_mcp_message("node", next_node, ResultContent(result), NoneCid, k)
        EXCEPT !.origin = "route", !.cause = mcp_msg.id]

\* (mutant of RoutedMessages: the result goes to the first successor only)
RoutedMessagesFirstOnly(mcp_msg, result, k) ==
    IF edges[mcp_msg.name] # <<>> /\ Truthy(result)
    THEN <<RoutedMessage(mcp_msg, edges[mcp_msg.name][1], result, k)>>
    ELSE <<>>

\* The follow-up envelopes of one dispatch, in edge order.
RoutedMessages(mcp_msg, result, k) ==
    IF edges[mcp_msg.name] # <<>> /\ Truthy(result)
    THEN [i \in 1..Len(edges[mcp_msg.name]) |->
            RoutedMessage(mcp_msg, edges[mcp_msg.name][i], result, k + i - 1)]
    ELSE <<>>

\* (mutant of RoutedAfterCall: the except branch routes an empty result)
RoutedAfterFailure(mcp_msg, result, raises, k) ==
    IF raises
    THEN RoutedMessages(mcp_msg, [kind |-> "dict", content |-> NoContent], k)
    ELSE RoutedMessages(mcp_msg, result, k)

\* The follow-up envelopes of one node call: the routing loop is inside the try
\* block, after the call, so a call that raises skips it.
RoutedAfterCall(mcp_msg, result, raises, k) ==
    IF raises THEN <<>> ELSE RoutedMessages(mcp_msg, result, k)

\* (mutant of DispatchCatches: no try/except around the node call)
DispatchCatchesNothing == FALSE

\* "except Exception": every exception a node raises is caught by _dispatch.
DispatchCatches == TRUE

\* (mutant of LogAppend: the log keeps the newest entry only)
LogKeepLatest(log, mcp_msg) == <<mcp_msg>>

\* (mutant of LogAppend: the newest entry is put first)
LogPrepend(log, mcp_msg) == <<mcp_msg>> \o log

\* (mutant of LogAppend: only envelopes that found a node are logged)
LogAppendIfRegistered(log, mcp_msg) ==
    IF nodes[mcp_msg.name] # NoFn THEN Append(log, mcp_msg) ELSE log

\* The entry _dispatch appends to consumers_log.
LogAppend(log, mcp_msg) == Append(log, mcp_msg)

\* get_conversation_events(conversation_id)
RECURSIVE SelectCid(_, _)
SelectCid(log, conversation_id) ==
    IF log = <<>> THEN <<>>
    ELSE IF get_conversation_id(Head(log)) = conversation_id
         THEN <<Head(log)>> \o SelectCid(Tail(log), conversation_id)
         ELSE SelectCid(Tail(log), conversation_id)

\* (mutant of get_conversation_events: the id is ignored)
get_conversation_events_unfiltered(log, conversation_id) == log

get_conversation_events(log, conversation_id) ==
    IF conversation_id = NoneCid THEN log ELSE SelectCid(log, conversation_id)

RECURSIVE SumLen(_)
SumLen(S) == IF S = {} THEN 0 ELSE LET n == CHOOSE x \in S : TRUE IN Len(edges[n]) + SumLen(S \ {n})

\* number of add_edge calls so far
EdgeCount == SumLen(Names)

\* Envelopes an external caller builds with create_mcp_message, with or without
\* a conversation id.
FactoryMessages(k) ==
    {create_mcp_message("agent", n, c, cidv, k) :
        n \in Names, c \in Payloads, cidv \in CallerCids \cup {NoneCid}}

\* Plain dicts an external caller hands to send: without "metadata", or with a
\* "metadata" that lacks the conversation id.
RawMessages(k) ==
    {[create_mcp_message("agent", n, c, NoneCid, k)
        EXCEPT !.hasMeta = FALSE, !.ts = FALSE, !.cid = AbsentCid] : n \in Names, c \in Payloads}
    \cup {[create_mcp_message("agent", n, c, NoneCid, k)
        EXCEPT !.cid = AbsentCid] : n \in Names, c \in Payloads}

NoQuery == [cid |-> NoneCid, asked |-> FALSE, events |-> <<>>]
NoDispatch == [status |-> "none", fn |-> NoFn,
               result |-> [kind |-> "none", content |-> NoContent]]

InitCoord ==
    /\ nodes = [n \in Names |-> NoFn]
    /\ edges = [n \in Names |-> <<>>]
    /\ msg_queue = <<>>
    /\ consumers_log = <<>>
    /\ pc = "idle"
    /\ nextId = 0
    /\ lastQuery = NoQuery
    /\ runRaised = FALSE
    /\ last = NoDispatch
    /\ raisedInRun = FALSE

\* (mutant of register_node: a name keeps the behaviour registered first)
register_node_first_wins(name, fn) ==
    /\ pc = "idle"
    /\ nodes' = [nodes EXCEPT ![name] = IF @ = NoFn THEN fn ELSE @]
    /\ lastQuery' = NoQuery
    /\ UNCHANGED <<edges, msg_queue, consumers_log, pc, nextId, runRaised, last, raisedInRun>>

register_node(name, fn) ==
    /\ pc = "idle"
    /\ nodes' = [nodes EXCEPT ![name] = fn]
    /\ lastQuery' = NoQuery
    /\ UNCHANGED <<edges, msg_queue, consumers_log, pc, nextId, runRaised, last, raisedInRun>>

\* Behaviours of which one can replace the other under the same name.
Behaviours == {"f1", "f2"}

\* no register_node call was made yet
NoRegistration == [name |-> "none", fn |-> NoFn, old |-> NoFn]

\* register_node(name, fn), with the call noted
Register(name, fn) ==
    /\ register_node(name, fn)
    /\ reg' = [name |-> name, fn |-> fn, old |-> nodes[name]]

add_edge(source, target) ==
    /\ pc = "idle"
    /\ EdgeCount < MaxEdges
    /\ edges' = [edges EXCEPT ![source] = Append(@, target)]
    /\ lastQuery' = NoQuery
    /\ UNCHANGED <<nodes, msg_queue, consumers_log, pc, nextId, runRaised, last, raisedInRun>>

\* send called by an external caller
Submit(mcp_msg) ==
    /\ pc = "idle"
    /\ nextId < MaxEnvelopes
    /\ msg_queue' = send(msg_queue, mcp_msg, nextId + 1)
    /\ nextId' = nextId + 1
    /\ lastQuery' = NoQuery
    /\ UNCHANGED <<nodes, edges, consumers_log, pc, runRaised, last, raisedInRun>>

\* run_once is entered
RunOnceCall ==
    /\ pc = "idle"
    /\ pc' = "draining"
    /\ runRaised' = FALSE
    /\ raisedInRun' = FALSE
    /\ lastQuery' = NoQuery
    /\ UNCHANGED <<nodes, edges, msg_queue, consumers_log, nextId, last>>

\* (mutant of DispatchWithin: a call that raises takes back what the node sent)
DispatchRollsBack(limit, emits, result, raises) ==
    /\ pc = "draining"
    /\ msg_queue # <<>>
    /\ LET mcp_msg == Head(msg_queue)
           node_fn == nodes[mcp_msg.name]
           emitted == NodeEmits(mcp_msg, emits, nextId + 1)
           routed  == RoutedAfterCall(mcp_msg, result, raises, nextId + Len(emits) + 1)
       IN /\ node_fn # NoFn
          /\ raises => result.kind = "none"
          /\ nextId + Len(emitted) + Len(routed) <= limit
          /\ consumers_log' = LogAppend(consumers_log, mcp_msg)
          /\ msg_queue' = IF raises THEN Tail(msg_queue)
                          ELSE SendAll(Tail(msg_queue), emitted \o routed, nextId + 1)
          /\ nextId' = nextId + Len(emitted) + Len(routed)
          /\ last' = [status |-> IF raises THEN "raised" ELSE "returned",
                      fn |-> node_fn, result |-> result]
          /\ raisedInRun' = (raisedInRun \/ raises)
          /\ UNCHANGED <<pc, runRaised>>
    /\ UNCHANGED <<nodes, edges, lastQuery>>

\* One iteration of the loop of run_once whose target is registered:
\* msg = self.msg_queue.get(); self._dispatch(msg). The step is taken only while
\* the number of envelopes stays within limit.
DispatchWithin(limit, emits, result, raises) ==
    /\ pc = "draining"
    /\ msg_queue # <<>>
    /\ LET mcp_msg == Head(msg_queue)
           node_fn == nodes[mcp_msg.name]
           emitted == NodeEmits(mcp_msg, emits, nextId + 1)
           routed  == RoutedAfterCall(mcp_msg, result, raises, nextId + Len(emits) + 1)
       IN /\ node_fn # NoFn
          /\ raises => result.kind = "none"
          /\ nextId + Len(emitted) + Len(routed) <= limit
          /\ consumers_log' = LogAppend(consumers_log, mcp_msg)
          /\ msg_queue' = SendAll(Tail(msg_queue), emitted \o routed, nextId + 1)
          /\ nextId' = nextId + Len(emitted) + Len(routed)
          /\ IF raises /\ ~DispatchCatches
             THEN pc' = "idle" /\ runRaised' = TRUE /\ last' = NoDispatch /\ raisedInRun' = FALSE
             ELSE /\ last' = [status |-> IF raises THEN "raised" ELSE "returned",
                              fn |-> node_fn, result |-> result]
                  /\ raisedInRun' = (raisedInRun \/ raises)
                  /\ UNCHANGED <<pc, runRaised>>
    /\ UNCHANGED <<nodes, edges, lastQuery>>

DispatchNode(emits, result, raises) == DispatchWithin(MaxEnvelopes, emits, result, raises)

\* (mutant of DispatchUnregistered: run_once gives up at an unresolved envelope)
DispatchUnregisteredStops ==
    /\ pc = "draining"
    /\ msg_queue # <<>>
    /\ LET mcp_msg == Head(msg_queue)
       IN /\ nodes[mcp_msg.name] = NoFn
          /\ consumers_log' = LogAppend(consumers_log, mcp_msg)
          /\ msg_queue' = Tail(msg_queue)
          /\ last' = [NoDispatch EXCEPT !.status = "nonode"]
    /\ pc' = "idle"
    /\ UNCHANGED <<nodes, edges, nextId, lastQuery, runRaised, raisedInRun>>

\* One iteration of the loop of run_once whose target is not registered.
DispatchUnregistered ==
    /\ pc = "draining"
    /\ msg_queue # <<>>
    /\ LET mcp_msg == Head(msg_queue)
       IN /\ nodes[mcp_msg.name] = NoFn
          /\ consumers_log' = LogAppend(consumers_log, mcp_msg)
          /\ msg_queue' = Tail(msg_queue)
          /\ last' = [NoDispatch EXCEPT !.status = "nonode"]
    /\ UNCHANGED <<nodes, edges, pc, nextId, lastQuery, runRaised, raisedInRun>>

\* run_once finds the queue empty and returns
RunOnceReturn ==
    /\ pc = "draining"
    /\ msg_queue = <<>>
    /\ pc' = "idle"
    /\ last' = NoDispatch
    /\ raisedInRun' = FALSE
    /\ UNCHANGED <<nodes, edges, msg_queue, consumers_log, nextId, lastQuery, runRaised>>

\* get_conversation_events called by an external caller
Query(conversation_id) ==
    /\ pc = "idle"
    /\ lastQuery' = [cid |-> conversation_id, asked |-> TRUE,
                     events |-> get_conversation_events(consumers_log, conversation_id)]
    /\ UNCHANGED <<nodes, edges, msg_queue, consumers_log, pc, nextId, runRaised, last, raisedInRun>>

\* Two behaviours that emit nothing: one returns a dict with a payload, the other
\* returns None.
CycleBehaviours == {"returns_dict", "returns_none"}

\* (mutant of NodeResult: no behaviour returns a result)
NodeResultNone(fn) == [kind |-> "none", content |-> NoContent]

\* the value the behaviour returns
NodeResult(fn) ==
    IF fn = "returns_dict"
    THEN [kind |-> "dict", content |-> CHOOSE c \in ResultPayloads : TRUE]
    ELSE [kind |-> "none", content |-> NoContent]

\* the successor lists add_edge can have built for one name
EdgeLists == {<<>>} \cup {<<n>> : n \in Names} \cup {<<n, m>> : n \in Names, m \in Names}

\* A coordinator set up by register_node and add_edge calls, with one envelope
\* submitted.
InitCycle ==
    /\ nodes \in [Names -> CycleBehaviours \cup {NoFn}]
    /\ edges \in [Names -> EdgeLists]
    /\ \E m \in FactoryMessages(1) : msg_queue = send(<<>>, m, 1)
    /\ consumers_log = <<>>
    /\ pc = "idle"
    /\ nextId = 1
    /\ lastQuery = NoQuery
    /\ runRaised = FALSE
    /\ last = NoDispatch
    /\ raisedInRun = FALSE

\* One iteration of the loop of run_once for a registered behaviour of
\* CycleBehaviours.
CycleDispatch ==
    /\ msg_queue # <<>>
    /\ DispatchWithin(MaxCycleEnvelopes, <<>>, NodeResult(nodes[Head(msg_queue).name]), FALSE)

QueryCids == {NoneCid} \cup CallerCids \cup {Uuid(k) : k \in 1..MaxEnvelopes}

----------------------------------------------------------------------------
(* CircuitBreaker (utils/resilience.py) *)

NoTime == 0             \* last_failure_time is None (falsy, as 0.0 would be)

\* CircuitBreaker.__init__
CircuitBreakerInit(failure_threshold, recovery_timeout) ==
    [ failure_threshold |-> failure_threshold,
      recovery_timeout  |-> recovery_timeout,
      failure_count     |-> 0,
      last_failure_time |-> NoTime,
      state             |-> "closed" ]

\* CircuitBreaker._should_attempt_reset at time t
_should_attempt_reset(b, t) ==
    b.last_failure_time # NoTime /\ t - b.last_failure_time >= b.recovery_timeout

\* (mutant of _on_success: the state is closed, the counter is left as it is)
_on_success_keeps_count(b) ==
    [b EXCEPT !.state = IF b.state = "half_open" THEN "closed" ELSE @]

\* (mutant of _on_success: the counter is reset, the state is left as it is)
_on_success_keeps_state(b) == [b EXCEPT !.failure_count = 0]

\* CircuitBreaker._on_success
_on_success(b) ==
    [b EXCEPT !.state = IF b.state = "half_open" THEN "closed" ELSE @,
              !.failure_count = 0]

\* (mutant of _on_failure: opens only when the counter exceeds the threshold)
_on_failure_late(b, t) ==
    [b EXCEPT !.failure_count = @ + 1,
              !.last_failure_time = t,
              !.state = IF b.failure_count + 1 > b.failure_threshold THEN "open" ELSE @]

\* CircuitBreaker._on_failure at time t
_on_failure(b, t) ==
    [b EXCEPT !.failure_count = @ + 1,
              !.last_failure_time = t,
              !.state = IF b.failure_count + 1 >= b.failure_threshold THEN "open" ELSE @]

\* Outcomes of the wrapped operation: it returns ("ok"), raises one of
\* expected_exception ("fail"), or raises an exception that is not in
\* expected_exception ("other").
Outcomes == {"ok", "fail", "other"}

\* No call in progress.
NoCall == [pos |-> "idle", trial |-> FALSE]

\* Observations of the breaker's calls (not fields of the object):
\*   consec      failures recorded in a row since the last recorded success
\*   lastFail    time of the last recorded failure
\*   unrecorded  calls let through to func since the breaker was last open, with no
\*               outcome recorded since (_on_success and _on_failure not run)
\*   trialResult outcome of the last finished call if that call was the trial call
\*   result      outcome of the last call that reached func, "none" while it runs
NoObs == [consec |-> 0, lastFail |-> NoTime, unrecorded |-> 0, trialResult |-> "none",
          result |-> "none"]

InitCB ==
    /\ \E th \in 1..MaxThreshold, rec \in 1..MaxRecovery : cb = CircuitBreakerInit(th, rec)
    /\ now = 1
    /\ call = NoCall
    /\ cbObs = NoObs

\* time passes
Tick ==
    /\ now < MaxTime
    /\ now' = now + 1
    /\ UNCHANGED <<cb, call, cbObs>>

\* _call, lines 181-192: the breaker is open and the recovery timeout has not
\* elapsed, CircuitBreakerOpenError is raised
CallRejected ==
    /\ call.pos = "idle"
    /\ cb.state = "open"
    /\ ~_should_attempt_reset(cb, now)
    /\ call' = [pos |-> "rejected", trial |-> FALSE]
    /\ UNCHANGED <<cb, now, cbObs>>

\* the caller has received CircuitBreakerOpenError
CallReturn ==
    /\ call.pos = "rejected"
    /\ call' = NoCall
    /\ UNCHANGED <<cb, now, cbObs>>

\* _call, lines 181-195: the call goes through to func
CallEnter ==
    /\ call.pos = "idle"
    /\ cb.state = "open" => _should_attempt_reset(cb, now)
    /\ cb' = [cb EXCEPT !.state = IF cb.state = "open" THEN "half_open" ELSE @]
    /\ call' = [pos |-> "in_func", trial |-> (cb.state = "open")]
    /\ cbObs' = [cbObs EXCEPT !.unrecorded = IF cb.state = "closed" THEN 0
                                             ELSE IF @ < MaxUnrecorded THEN @ + 1 ELSE @,
                              !.trialResult = "none",
                              !.result = "none"]
    /\ UNCHANGED now

\* (mutant of CallExit: every exception counts as a failure)
CallExitCountsAll(outcome) ==
    /\ call.pos = "in_func"
    /\ cb' = IF outcome = "ok" THEN _on_success(cb) ELSE _on_failure(cb, now)
    /\ call' = NoCall
    /\ cbObs' = [cbObs EXCEPT
                    !.consec = CASE outcome = "ok" -> 0
                                 [] outcome = "fail" -> @ + 1
                                 [] OTHER -> @,
                    !.lastFail = IF outcome = "fail" THEN now ELSE @,
                    !.unrecorded = IF outcome = "other" THEN @ ELSE 0,
                    !.trialResult = IF call.trial THEN outcome ELSE "none",
                    !.result = outcome]
    /\ UNCHANGED now

\* _call, lines 195-201: func ends with the given outcome
CallExit(outcome) ==
    /\ call.pos = "in_func"
    /\ cb' = CASE outcome = "ok"   -> _on_success(cb)
               [] outcome = "fail" -> _on_failure(cb, now)
               [] OTHER            -> cb
    /\ call' = NoCall
    /\ cbObs' = [cbObs EXCEPT
                    !.consec = CASE outcome = "ok" -> 0
                                 [] outcome = "fail" -> @ + 1
                                 [] OTHER -> @,
                    !.lastFail = IF outcome = "fail" THEN now ELSE @,
                    !.unrecorded = IF outcome = "other" THEN @ ELSE 0,
                    !.trialResult = IF call.trial THEN outcome ELSE "none",
                    !.result = outcome]
    /\ UNCHANGED now

----------------------------------------------------------------------------
(* retry_with_backoff (utils/resilience.py) *)

\* Time of the wrapper's clock is counted in ticks of 1/TicksPerSecond second, so
\* that a jittered delay is a whole number of ticks.
TicksPerSecond == 2 * JitterSteps

Strategies == {"exponential_backoff", "linear_backoff", "fixed_delay"}
NoTimeout == 0                      \* timeout is None (falsy, as 0 would be)
Timeouts == {NoTimeout, 1, 3}       \* the timeout parameter, in seconds
FuncDurations == {0, 1}             \* seconds one invocation of func can take
NoException == "none"               \* last_exception = None
FailureKinds == {"E1", "E2", "X"}   \* exception classes func can raise
RetryOn == {"E1", "E2"}             \* the exceptions parameter: the classes retried on
TypeErrorKind == "TypeError"        \* what "raise None" raises

Min(a, b) == IF a <= b THEN a ELSE b

\* _calculate_delay, lines 138-145: the delay of the strategy, in seconds
StrategyDelay(strategy, attempt, base_delay) ==
    CASE strategy = "fixed_delay"         -> base_delay
      [] strategy = "linear_backoff"      -> base_delay * (attempt + 1)
      [] strategy = "exponential_backoff" -> base_delay * (2 ^ attempt)
      [] OTHER                            -> base_delay

\* (mutant of CappedDelay: max_delay is not applied)
UncappedDelay(strategy, attempt, base_delay, max_delay) ==
    StrategyDelay(strategy, attempt, base_delay)

\* _calculate_delay, line 148: delay = min(delay, max_delay), in seconds
CappedDelay(strategy, attempt, base_delay, max_delay) ==
    Min(StrategyDelay(strategy, attempt, base_delay), max_delay)

\* _calculate_delay, in ticks. r stands for random.random() = r / JitterSteps, so
\* that delay * (0.5 + random.random() * 0.5) seconds is delay * (JitterSteps + r)
\* ticks.
_calculate_delay(strategy, attempt, base_delay, max_delay, jitter, r) ==
    LET delay == CappedDelay(strategy, attempt, base_delay, max_delay)
    IN IF jitter THEN delay * (JitterSteps + r) ELSE delay * TicksPerSecond

\* (mutant of IsRetried: every exception is retried on)
IsRetriedAlways(kind, exceptions) == TRUE

\* "except exceptions as e" catches the raised class
IsRetried(kind, exceptions) == kind \in exceptions

\* (mutant of IsLastAttempt: the test is off by one)
IsLastAttemptLate(attempt, max_attempts) == attempt = max_attempts

\* "if attempt == max_attempts - 1: break"
IsLastAttempt(attempt, max_attempts) == attempt = max_attempts - 1

\* "if timeout and (time.time() - start_time) > timeout", elapsed in ticks
TimedOut(timeout, elapsed) == timeout # NoTimeout /\ elapsed > timeout * TicksPerSecond

NoResult == [kind |-> "none", exc |-> NoException]
NoDelay == [capped |-> 0, slept |-> 0, attempt |-> -1]

\* A wrapper built with the given parameters, called at clock 0.
\* Observations (not variables of the code): calls, successes, sleeps, delay,
\* prevDelay, invokedAt, funcEnd, finished.
RetryCall(max_attempts, strategy, base_delay, max_delay, jitter, exceptions, timeout) ==
    [ max_attempts |-> max_attempts, strategy |-> strategy, base_delay |-> base_delay,
      max_delay |-> max_delay, jitter |-> jitter, exceptions |-> exceptions,
      timeout |-> timeout,
      pos |-> "head", attempt |-> 0, start_time |-> 0, clock |-> 0,
      last_exception |-> NoException, result |-> NoResult,
      calls |-> 0, successes |-> 0, sleeps |-> 0, delay |-> NoDelay, prevDelay |-> NoDelay,
      invokedAt |-> 0, funcEnd |-> 0, lastOutcome |-> "none" ]

\* a wrapper that is never called
RetryIdle ==
    [RetryCall(1, "fixed_delay", 1, 1, FALSE, RetryOn, NoTimeout) EXCEPT !.pos = "unused"]

InitRetry ==
    \E ma \in 0..MaxAttempts, st \in Strategies, bd \in 1..MaxBaseDelay, md \in 1..MaxDelay,
       ji \in BOOLEAN, to \in Timeouts :
        rt = RetryCall(ma, st, bd, md, ji, RetryOn, to)

\* lines 66-73: the loop has another iteration and the deadline has passed
RetryTimeout ==
    /\ rt.pos = "head"
    /\ rt.attempt < rt.max_attempts
    /\ TimedOut(rt.timeout, rt.clock - rt.start_time)
    /\ rt' = [rt EXCEPT !.pos = "done", !.result = [kind |-> "raised", exc |-> "TimeoutError"]]

\* lines 66-77: the loop has another iteration and func is invoked
RetryInvoke ==
    /\ rt.pos = "head"
    /\ rt.attempt < rt.max_attempts
    /\ ~TimedOut(rt.timeout, rt.clock - rt.start_time)
    /\ rt' = [rt EXCEPT !.pos = "in_func", !.calls = @ + 1, !.invokedAt = rt.clock]

\* lines 77-88: func returns after dur seconds
RetryFuncReturns(dur) ==
    /\ rt.pos = "in_func"
    /\ rt' = [rt EXCEPT !.pos = "done", !.clock = @ + dur * TicksPerSecond,
                        !.funcEnd = rt.clock + dur * TicksPerSecond,
                        !.result = [kind |-> "returned", exc |-> NoException],
                        !.successes = @ + 1, !.lastOutcome = "ok"]

\* lines 90-110: func raises, after dur seconds, an exception of a class retried
\* on; r is the value random.random() takes in _calculate_delay
RetryFuncFails(kind, dur, r) ==
    /\ rt.pos = "in_func"
    /\ IsRetried(kind, rt.exceptions)
    /\ LET ended == rt.clock + dur * TicksPerSecond
           ticks == _calculate_delay(rt.strategy, rt.attempt, rt.base_delay,
                                     rt.max_delay, rt.jitter, r)
       IN IF IsLastAttempt(rt.attempt, rt.max_attempts)
          THEN \* break; then lines 122-128: raise last_exception
               rt' = [rt EXCEPT !.pos = "done", !.clock = ended, !.funcEnd = ended,
                                !.last_exception = kind, !.lastOutcome = kind,
                                !.result = [kind |-> "raised", exc |-> kind]]
          ELSE \* time.sleep(delay), then the next iteration
               rt' = [rt EXCEPT !.pos = "head", !.clock = ended + ticks, !.funcEnd = ended,
                                !.last_exception = kind, !.lastOutcome = kind,
                                !.attempt = @ + 1, !.sleeps = @ + 1,
                                !.prevDelay = rt.delay,
                                !.delay = [capped |-> CappedDelay(rt.strategy, rt.attempt,
                                                          rt.base_delay, rt.max_delay),
                                           slept |-> ticks, attempt |-> rt.attempt]]

\* lines 112-119: func raises, after dur seconds, an exception of another class
RetryFuncRaisesOther(kind, dur) ==
    /\ rt.pos = "in_func"
    /\ ~IsRetried(kind, rt.exceptions)
    /\ rt' = [rt EXCEPT !.pos = "done", !.clock = @ + dur * TicksPerSecond,
                        !.funcEnd = rt.clock + dur * TicksPerSecond,
                        !.lastOutcome = kind,
                        !.result = [kind |-> "raised", exc |-> kind]]

\* lines 66, 122-128: the loop ends without break ("raise last_exception"; with
\* last_exception = None the raise statement itself raises TypeError)
RetryLoopEnds ==
    /\ rt.pos = "head"
    /\ rt.attempt >= rt.max_attempts
    /\ rt' = [rt EXCEPT !.pos = "done",
                        !.result = [kind |-> "raised",
                                    exc |-> IF rt.last_exception = NoException
                                            THEN TypeErrorKind ELSE rt.last_exception]]

----------------------------------------------------------------------------
(* A circuit breaker around a retry wrapper (tools/git_tool.py, clone_repo;
   tools/llm_tool_groq.py, groq_chat) *)

ToolMaxAttempts == 3    \* max_attempts=3 of both tools

\* The retry wrapper of a tool: exponential backoff, jitter by default, a timeout,
\* and a tuple of exceptions that leaves some classes non-recoverable (clone_repo).
\* Delays and timeouts are scaled down to the seconds of the model.
GuardedRetry(timeout) ==
    RetryCall(ToolMaxAttempts, "exponential_backoff", 1, MaxDelay, TRUE, RetryOn, timeout)

\* (mutant of BreakerOutcome: the breaker does not count the wrapper's TimeoutError)
BreakerOutcomeNoTimeout(result) ==
    IF result.kind = "returned" THEN "ok"
    ELSE IF result.exc = "TimeoutError" THEN "other" ELSE "fail"

\* What the breaker sees of a finished call of the retry wrapper: both breakers
\* are built with expected_exception=(Exception,), and whatever the wrapper raises
\* is an Exception.
BreakerOutcome(result) == IF result.kind = "returned" THEN "ok" ELSE "fail"

\* _call lets the call through: the retry wrapper starts
GuardedEnter ==
    /\ CallEnter
    /\ \E t \in Timeouts \ {NoTimeout} : rt' = GuardedRetry(t)

\* the retry wrapper returns or raises into _call
GuardedExit ==
    /\ rt.pos = "done"
    /\ CallExit(BreakerOutcome(rt.result))
    /\ rt' = [rt EXCEPT !.pos = "unused"]

----------------------------------------------------------------------------
(* RateLimiter (utils/resilience.py) *)

\* The limiter's clock is counted in ticks of 1/TicksPerSecond second and its
\* token count in 1/TicksPerSecond token, so that time_passed * refill_rate is a
\* whole number: a count of k stands for k / TicksPerSecond tokens.
Threads == {"t1", "t2"}             \* callers of acquire on one limiter
Tokens(n) == n * TicksPerSecond

\* (mutant of Refilled: the refill is not capped by max_tokens)
RefilledUncapped(max_tokens, refill_rate, tokens, time_passed) ==
    tokens + time_passed * refill_rate

\* line 250-253: min(self.max_tokens, self.tokens + time_passed * self.refill_rate)
Refilled(max_tokens, refill_rate, tokens, time_passed) ==
    Min(Tokens(max_tokens), tokens + time_passed * refill_rate)

\* (mutant of HasEnough: the last token is never handed out)
HasMoreThan(tokens, n) == tokens > Tokens(n)

\* line 257: self.tokens >= tokens
HasEnough(tokens, n) == tokens >= Tokens(n)

IdleCaller == [pos |-> "idle", now |-> 0, time_passed |-> 0, read |-> 0, n |-> 0]

\* RateLimiter.__init__ at clock 0.
\* Observations (not fields of the object): calls, scenario, lastOk, lastN,
\* granted, started.
RateLimiterInit(max_tokens, refill_rate) ==
    [ max_tokens |-> max_tokens, refill_rate |-> refill_rate,
      tokens |-> Tokens(max_tokens), last_refill |-> 0,
      clock |-> 0,
      caller |-> [t \in Threads |-> IdleCaller],
      calls |-> 0, scenario |-> TRUE, lastOk |-> FALSE, lastN |-> 0, granted |-> 0,
      started |-> 0 ]

\* a limiter that is never used
LimiterIdle == RateLimiterInit(1, 1)

InitLimiter ==
    \E mt \in 1..MaxTokens, rr \in 1..MaxRate : rl = RateLimiterInit(mt, rr)

\* the limiters that concurrent callers share
InitSharedLimiter ==
    \E mt \in 1..MaxSharedTokens, rr \in 1..MaxRate : rl = RateLimiterInit(mt, rr)

\* time passes, up to the given number of seconds
LimiterTick(seconds) ==
    /\ rl.clock < seconds * TicksPerSecond
    /\ rl' = [rl EXCEPT !.clock = @ + 1]

\* The timing of the scenario "max_tokens + 1 immediate calls, then calls one
\* token's refill time later": call number k (from 1) is made at the right time.
InScenario(k) ==
    IF k <= rl.max_tokens + 1 THEN rl.clock = 0
    ELSE rl.clock * rl.refill_rate = TicksPerSecond

\* RateLimiter.acquire(tokens = n), called by one caller at a time
acquire_atomic(n) ==
    LET time_passed == rl.clock - rl.last_refill
        tokens == Refilled(rl.max_tokens, rl.refill_rate, rl.tokens, time_passed)
    IN  rl' = [rl EXCEPT !.tokens = IF HasEnough(tokens, n) THEN tokens - Tokens(n) ELSE tokens,
                         !.last_refill = rl.clock,
                         !.lastOk = HasEnough(tokens, n),
                         !.lastN = n,
                         !.granted = IF HasEnough(tokens, n) THEN @ + Tokens(n) ELSE @,
                         !.scenario = @ /\ n = 1 /\ InScenario(rl.calls + 1),
                         !.calls = Min(@ + 1, rl.max_tokens + 4)]

\* acquire called by several threads on one limiter: the method holds no lock, so
\* its reads and writes of self.tokens and self.last_refill interleave.

\* line 246: now = time.time()
AcqStart(t, n) ==
    /\ rl.caller[t].pos = "idle"
    /\ rl.started < MaxThreadCalls
    /\ rl' = [rl EXCEPT !.caller[t] = [IdleCaller EXCEPT !.pos = "refill", !.now = rl.clock,
                                                         !.n = n],
                        !.started = @ + 1]

\* line 249 and the read of self.tokens in line 252
AcqReadRefill(t) ==
    /\ rl.caller[t].pos = "refill"
    /\ rl' = [rl EXCEPT !.caller[t].pos = "store",
                        !.caller[t].time_passed = rl.caller[t].now - rl.last_refill,
                        !.caller[t].read = rl.tokens]

\* lines 250-254: the assignments to self.tokens and self.last_refill
AcqStoreRefill(t) ==
    /\ rl.caller[t].pos = "store"
    /\ rl' = [rl EXCEPT !.caller[t].pos = "check",
                        !.tokens = Refilled(rl.max_tokens, rl.refill_rate,
                                            rl.caller[t].read, rl.caller[t].time_passed),
                        !.last_refill = rl.caller[t].now]

\* line 257 with the result True: the read of self.tokens
AcqCheckEnough(t) ==
    /\ rl.caller[t].pos = "check"
    /\ HasEnough(rl.tokens, rl.caller[t].n)
    /\ rl' = [rl EXCEPT !.caller[t].pos = "deduct"]

\* lines 257, 261: not enough tokens, return False
AcqCheckFails(t) ==
    /\ rl.caller[t].pos = "check"
    /\ ~HasEnough(rl.tokens, rl.caller[t].n)
    /\ rl' = [rl EXCEPT !.caller[t] = IdleCaller, !.lastOk = FALSE]

\* line 258: the read of self.tokens in "self.tokens -= tokens"
AcqDeductRead(t) ==
    /\ rl.caller[t].pos = "deduct"
    /\ rl' = [rl EXCEPT !.caller[t].pos = "deduct_store", !.caller[t].read = rl.tokens]

\* lines 258-259: the assignment of "self.tokens -= tokens"; return True
AcqDeductStore(t) ==
    /\ rl.caller[t].pos = "deduct_store"
    /\ rl' = [rl EXCEPT !.caller[t] = IdleCaller,
                        !.tokens = rl.caller[t].read - Tokens(rl.caller[t].n),
                        !.granted = @ + Tokens(rl.caller[t].n),
                        !.lastOk = TRUE]

----------------------------------------------------------------------------
(* The pipeline: agents/graph_spec.py (build_graph) and agents/nodes.py *)

PipelineNodes == {"RepoNode", "AnalyzerNode", "WriterNode", "PDFNode", "EvaluatorNode"}
PipelineNames ==
    PipelineNodes
    \cup {"Coordinator", "RepoAgent", "AnalyzerAgent", "WriterAgent", "PDFAgent", "EvaluatorAgent"}

\* build_graph: the register_node calls
BuiltNodes ==
    [n \in PipelineNames |->
        CASE n = "Coordinator"                       -> "coordinator_node"
          [] n \in {"RepoNode", "RepoAgent"}           -> "repo_node"
          [] n \in {"AnalyzerNode", "AnalyzerAgent"}   -> "analyzer_node"
          [] n \in {"WriterNode", "WriterAgent"}       -> "writer_node"
          [] n \in {"PDFNode", "PDFAgent"}             -> "pdf_node"
          [] n \in {"EvaluatorNode", "EvaluatorAgent"} -> "evaluator_node"]

\* (mutant of BuiltEdges: the edges are declared for the *Agent names as well)
BuiltEdgesForAliases ==
    [n \in PipelineNames |->
        CASE n \in {"RepoNode", "RepoAgent"}         -> <<"AnalyzerNode">>
          [] n \in {"AnalyzerNode", "AnalyzerAgent"} -> <<"WriterNode">>
          [] n \in {"WriterNode", "WriterAgent"}     -> <<"PDFNode", "EvaluatorNode">>
          [] OTHER                                   -> <<>>]

\* (mutant of BuiltEdges: build_graph declares no edge)
BuiltEdgesNone == [n \in PipelineNames |-> <<>>]

\* (mutant of BuiltEdges: a further edge, from EvaluatorNode back to WriterNode)
BuiltEdgesCyclic ==
    [n \in PipelineNames |->
        CASE n = "RepoNode"      -> <<"AnalyzerNode">>
          [] n = "AnalyzerNode"  -> <<"WriterNode">>
          [] n = "WriterNode"    -> <<"PDFNode", "EvaluatorNode">>
          [] n = "EvaluatorNode" -> <<"WriterNode">>
          [] OTHER               -> <<>>]

\* build_graph: the add_edge calls
BuiltEdges ==
    [n \in PipelineNames |->
        CASE n = "RepoNode"     -> <<"AnalyzerNode">>
          [] n = "AnalyzerNode" -> <<"WriterNode">>
          [] n = "WriterNode"   -> <<"PDFNode", "EvaluatorNode">>
          [] OTHER              -> <<>>]

\* Payloads ("content" dicts), named by the keys they hold:
\*   "{}"           no key (EmptyContent)
\*   "repo_url"     repo_url
\*   "repo_files"   repo_path, files, file_count, repo_url   (repo_node, to AnalyzerNode)
\*   "analysis"     repo_path, metrics, abstract             (analyzer_node, to WriterNode)
\*   "user_md"      user_md
\*   "md_path"      md_path
\*   "draft_ready", "user_updated"   status, md_path         (writer_node, to Coordinator)
\*   "pdf_ready"    status, pdf_path                         (pdf_node, to Coordinator)
\*   "eval_done"    status and the metrics                   (evaluator_node, to Coordinator)
\*   "error"        error                                    (to Coordinator)
SubmittedPayloads == {EmptyContent, "repo_url", "repo_files", "analysis", "user_md", "md_path"}
HasRepoUrl(content) == content \in {"repo_url", "repo_files"}
HasRepoPath(content) == content \in {"repo_files", "analysis"}
HasMdPath(content) == content \in {"md_path", "draft_ready", "user_updated"}
HasUserMd(content) == content = "user_md"
HasStatus(content) == content \in {"draft_ready", "user_updated", "pdf_ready", "eval_done"}
HasError(content) == content = "error"

Collaborators == {"clone_repo", "list_files", "extract_metrics",
                  "summarize_text_for_academic", "groq_chat", "md_to_pdf"}

\* What can go wrong in one call of a node: nothing ("none"), or the named step
\* raises: the validation of the envelope's strings and files ("validate"), a
\* collaborator, the import of textstat ("import"), reading or writing a file
\* ("file").
Failures == {"none", "validate", "import", "file", "clone_repo", "list_files",
             "extract_metrics", "groq_chat", "md_to_pdf"}

\* the steps of each node that can raise
FailureSteps(node_fn) ==
    CASE node_fn = "repo_node"      -> {"none", "validate", "clone_repo", "list_files"}
      [] node_fn = "analyzer_node"  -> {"none", "extract_metrics", "file"}
      [] node_fn = "writer_node"    -> {"none", "groq_chat", "file"}
      [] node_fn = "pdf_node"       -> {"none", "md_to_pdf"}
      [] node_fn = "evaluator_node" -> {"none", "import", "validate", "file"}
      [] OTHER                      -> {"none"}

\* utils/validation.py, validate_mcp_message: the checks on the envelope's fields
ValidEnvelope(msg) ==
    /\ msg.role \in {"agent", "user", "system"}
    /\ msg.hasMeta /\ msg.ts /\ msg.cid # AbsentCid

\* What one call of a node does: the envelopes it hands to coordinator_send, the
\* value it returns or the fact that it raises, the collaborators it invokes, and
\* whether its work failed.
DictResult == [kind |-> "dict", content |-> NoContent]
NoneResult == [kind |-> "none", content |-> NoContent]
Returns(emits, calls, failed) ==
    [emits |-> emits, result |-> DictResult, raises |-> FALSE, calls |-> calls, failed |-> failed]
Raises(calls) ==
    [emits |-> <<>>, result |-> NoneResult, raises |-> TRUE, calls |-> calls, failed |-> TRUE]
Emit(name, content) == <<[name |-> name, content |-> content]>>

coordinator_node(msg, fail) == Returns(<<>>, {}, FALSE)

repo_node(msg, fail) ==
    IF ~ValidEnvelope(msg) \/ fail = "validate" \/ ~HasRepoUrl(msg.content)
    THEN Returns(Emit("Coordinator", "error"), {}, TRUE)
    ELSE IF fail = "clone_repo"
    THEN Returns(Emit("Coordinator", "error"), {"clone_repo"}, TRUE)
    ELSE IF fail = "list_files"
    THEN Returns(Emit("Coordinator", "error"), {"clone_repo", "list_files"}, TRUE)
    ELSE Returns(Emit("AnalyzerNode", "repo_files"), {"clone_repo", "list_files"}, FALSE)

\* (mutant of analyzer_node: no try/except around the analysis)
analyzer_node_unguarded(msg, fail) ==
    IF ~HasRepoPath(msg.content)
    THEN Returns(Emit("Coordinator", "error"), {}, TRUE)
    ELSE IF fail = "extract_metrics"
    THEN Raises({"extract_metrics"})
    ELSE IF fail = "file"
    THEN Raises({"extract_metrics"})
    ELSE Returns(Emit("WriterNode", "analysis"),
                 {"extract_metrics", "summarize_text_for_academic"}, FALSE)

analyzer_node(msg, fail) ==
    IF ~HasRepoPath(msg.content)
    THEN Returns(Emit("Coordinator", "error"), {}, TRUE)
    ELSE IF fail = "extract_metrics"
    THEN Returns(Emit("Coordinator", "error"), {"extract_metrics"}, TRUE)
    ELSE IF fail = "file"
    THEN Returns(Emit("Coordinator", "error"), {"extract_metrics"}, TRUE)
    ELSE Returns(Emit("WriterNode", "analysis"),
                 {"extract_metrics", "summarize_text_for_academic"}, FALSE)

writer_node(msg, fail) ==
    IF ~msg.hasMeta \/ msg.cid = AbsentCid
    THEN Raises({})
    ELSE IF msg.role = "user" /\ HasUserMd(msg.content)
    THEN IF fail = "file" THEN Raises({})
         ELSE Returns(Emit("Coordinator", "user_updated"), {}, FALSE)
    ELSE IF fail = "groq_chat" THEN Raises({"groq_chat"})
    ELSE IF fail = "file" THEN Raises({"groq_chat"})
    ELSE Returns(Emit("Coordinator", "draft_ready"), {"groq_chat"}, FALSE)

pdf_node(msg, fail) ==
    IF ~msg.hasMeta \/ msg.cid = AbsentCid
    THEN Raises({})
    ELSE IF ~HasMdPath(msg.content) \/ fail = "md_to_pdf"
    THEN Raises({"md_to_pdf"})
    ELSE Returns(Emit("Coordinator", "pdf_ready"), {"md_to_pdf"}, FALSE)

evaluator_node(msg, fail) ==
    IF fail = "import"
    THEN Returns(<<>>, {}, TRUE)
    ELSE IF ~ValidEnvelope(msg) \/ fail = "validate" \/ ~HasMdPath(msg.content)
    THEN Returns(<<>>, {}, TRUE)
    ELSE IF fail = "file"
    THEN Returns(Emit("Coordinator", "error"), {}, TRUE)
    ELSE Returns(Emit("Coordinator", "eval_done"), {}, FALSE)

\* node_fn(mcp_msg, self.send) for the functions build_graph registers
NodeCall(node_fn, msg, fail) ==
    CASE node_fn = "repo_node"      -> repo_node(msg, fail)
      [] node_fn = "analyzer_node"  -> analyzer_node(msg, fail)
      [] node_fn = "writer_node"    -> writer_node(msg, fail)
      [] node_fn = "pdf_node"       -> pdf_node(msg, fail)
      [] node_fn = "evaluator_node" -> evaluator_node(msg, fail)
      [] OTHER                      -> coordinator_node(msg, fail)

\* Observations of the pipeline (not state of the code):
\*   calls     how often each collaborator was invoked
\*   failures  TRUE iff some step of some node call raised
\*   raised    TRUE iff some node call raised
\*   drained   TRUE iff a run_once call has returned
\*   call      the last node call: its envelope, function, emitted envelopes, outcome
NoNodeCall == [fn |-> NoFn, cid |-> NoneCid, emitted |-> <<>>, raises |-> FALSE, failed |-> FALSE]
PipelineIdle ==
    [calls |-> [c \in Collaborators |-> 0], failures |-> FALSE, raised |-> FALSE,
     drained |-> FALSE, call |-> NoNodeCall]

\* The envelopes a caller submits to the pipeline, built with create_mcp_message.
PipelineSubmissions ==
    {[create_mcp_message(role, n, c, cidv, 1) EXCEPT !.id = 1] :
        role \in {"agent", "user"}, n \in PipelineNodes, c \in SubmittedPayloads,
        cidv \in CallerCids \cup {NoneCid}}

\* build_graph: the names registered "for MCP naming consistency"
PipelineAliases == {"RepoAgent", "AnalyzerAgent", "WriterAgent", "PDFAgent", "EvaluatorAgent"}

\* The envelopes a caller submits to a pipeline node under either of its names.
AliasSubmissions ==
    {[create_mcp_message(role, n, c, cidv, 1) EXCEPT !.id = 1] :
        role \in {"agent", "user"}, n \in PipelineNodes \cup PipelineAliases,
        c \in SubmittedPayloads, cidv \in CallerCids \cup {NoneCid}}

\* coordinator = build_graph(); coordinator.send(m), m addressed to a *Node or a
\* *Agent name
InitAlias ==
    /\ nodes = BuiltNodes
    /\ edges = BuiltEdges
    /\ \E m \in AliasSubmissions : msg_queue = send(<<>>, m, 1)
    /\ consumers_log = <<>>
    /\ pc = "idle"
    /\ nextId = 1
    /\ lastQuery = NoQuery
    /\ runRaised = FALSE
    /\ last = NoDispatch
    /\ raisedInRun = FALSE
    /\ pl = PipelineIdle

\* coordinator = build_graph(); coordinator.send(m)
InitPipeline ==
    /\ nodes = BuiltNodes
    /\ edges = BuiltEdges
    /\ \E m \in PipelineSubmissions : msg_queue = send(<<>>, m, 1)
    /\ consumers_log = <<>>
    /\ pc = "idle"
    /\ nextId = 1
    /\ lastQuery = NoQuery
    /\ runRaised = FALSE
    /\ last = NoDispatch
    /\ raisedInRun = FALSE
    /\ pl = PipelineIdle

\* One iteration of the loop of run_once on the built graph; fail is the step of
\* the node call that raises.
PipelineDispatch(fail) ==
    /\ msg_queue # <<>>
    /\ LET mcp_msg == Head(msg_queue)
           node_fn == nodes[mcp_msg.name]
           b       == NodeCall(node_fn, mcp_msg, fail)
       IN /\ fail \in FailureSteps(node_fn)
          /\ DispatchWithin(MaxPipelineEnvelopes, b.emits, b.result, b.raises)
          /\ pl' = [pl EXCEPT
                      !.calls = [c \in Collaborators |-> IF c \in b.calls THEN @[c] + 1 ELSE @[c]],
                      !.failures = @ \/ fail # "none",
                      !.raised = @ \/ b.raises,
                      !.call = [fn |-> node_fn, cid |-> get_conversation_id(mcp_msg),
                                emitted |-> NodeEmits(mcp_msg, b.emits, nextId + 1),
                                raises |-> b.raises, failed |-> b.failed]]

PipelineRunOnceCall == RunOnceCall /\ UNCHANGED pl

PipelineRunOnceReturn == RunOnceReturn /\ pl' = [pl EXCEPT !.drained = TRUE]

----------------------------------------------------------------------------
(* Specifications *)

\* a breaker that is never called
InitOneBreaker ==
    /\ cb = CircuitBreakerInit(1, 1)
    /\ now = 1
    /\ call = NoCall
    /\ cbObs = NoObs

Init == InitCoord /\ InitOneBreaker /\ rt = RetryIdle /\ rl = LimiterIdle /\ pl = PipelineIdle
        /\ reg = NoRegistration

Next ==
    \/ (\E n \in Names, f \in Fns : register_node(n, f)) /\ UNCHANGED nonCoordVars
    \/ (\E s \in Names, t \in Names : add_edge(s, t)) /\ UNCHANGED nonCoordVars
    \/ (\E m \in FactoryMessages(nextId + 1) : Submit(m)) /\ UNCHANGED nonCoordVars
    \/ RunOnceCall /\ UNCHANGED nonCoordVars
    \/ (\E e \in EmitSpecs, r \in Results, x \in BOOLEAN : DispatchNode(e, r, x)) /\ UNCHANGED nonCoordVars
    \/ DispatchUnregistered /\ UNCHANGED nonCoordVars
    \/ RunOnceReturn /\ UNCHANGED nonCoordVars

\* The coordinator with its routing graph; external callers build their envelopes
\* with create_mcp_message.
Spec == Init /\ [][Next]_vars

NextCaller ==
    \/ (\E n \in Names, f \in Fns : register_node(n, f)) /\ UNCHANGED nonCoordVars
    \/ (\E m \in FactoryMessages(nextId + 1) \cup RawMessages(nextId + 1) : Submit(m))
            /\ UNCHANGED nonCoordVars
    \/ RunOnceCall /\ UNCHANGED nonCoordVars
    \/ (\E e \in EmitSpecs, r \in Results, x \in BOOLEAN : DispatchNode(e, r, x)) /\ UNCHANGED nonCoordVars
    \/ DispatchUnregistered /\ UNCHANGED nonCoordVars
    \/ RunOnceReturn /\ UNCHANGED nonCoordVars
    \/ (\E c \in QueryCids : Query(c)) /\ UNCHANGED nonCoordVars

\* The coordinator without edges; external callers also hand plain dicts to send
\* and call get_conversation_events.
SpecCaller == Init /\ [][NextCaller]_vars

NextBreaker ==
    \/ Tick /\ UNCHANGED nonBreakerVars
    \/ CallRejected /\ UNCHANGED nonBreakerVars
    \/ CallReturn /\ UNCHANGED nonBreakerVars
    \/ CallEnter /\ UNCHANGED nonBreakerVars
    \/ (\E o \in Outcomes : CallExit(o)) /\ UNCHANGED nonBreakerVars

InitBreaker == InitCoord /\ InitCB /\ rt = RetryIdle /\ rl = LimiterIdle /\ pl = PipelineIdle
               /\ reg = NoRegistration

\* the circuit breaker
SpecCB == InitBreaker /\ [][NextBreaker]_vars

NextRetry ==
    \/ RetryTimeout /\ UNCHANGED nonRetryVars
    \/ RetryInvoke /\ UNCHANGED nonRetryVars
    \/ (\E d \in FuncDurations : RetryFuncReturns(d)) /\ UNCHANGED nonRetryVars
    \/ (\E k \in FailureKinds, d \in FuncDurations, r \in 0..(JitterSteps - 1) :
            RetryFuncFails(k, d, r)) /\ UNCHANGED nonRetryVars
    \/ (\E k \in FailureKinds, d \in FuncDurations : RetryFuncRaisesOther(k, d))
            /\ UNCHANGED nonRetryVars
    \/ RetryLoopEnds /\ UNCHANGED nonRetryVars

InitRetryCall == InitCoord /\ InitOneBreaker /\ InitRetry /\ rl = LimiterIdle /\ pl = PipelineIdle
                 /\ reg = NoRegistration

\* one call of a function wrapped by retry_with_backoff
SpecRetry == InitRetryCall /\ [][NextRetry]_vars

NextLimiter ==
    \/ LimiterTick(MaxSeconds) /\ UNCHANGED nonLimiterVars
    \/ (\E n \in 0..MaxAcquire : acquire_atomic(n)) /\ UNCHANGED nonLimiterVars

InitLimiterOnly == InitCoord /\ InitOneBreaker /\ rt = RetryIdle /\ InitLimiter /\ pl = PipelineIdle
                   /\ reg = NoRegistration

\* a rate limiter used by one caller at a time
SpecLimiter == InitLimiterOnly /\ [][NextLimiter]_vars

NextThreads ==
    \/ LimiterTick(MaxSharedSeconds) /\ UNCHANGED nonLimiterVars
    \/ (\E t \in Threads, n \in 1..MaxAcquire : AcqStart(t, n)) /\ UNCHANGED nonLimiterVars
    \/ (\E t \in Threads : AcqReadRefill(t)) /\ UNCHANGED nonLimiterVars
    \/ (\E t \in Threads : AcqStoreRefill(t)) /\ UNCHANGED nonLimiterVars
    \/ (\E t \in Threads : AcqCheckEnough(t)) /\ UNCHANGED nonLimiterVars
    \/ (\E t \in Threads : AcqCheckFails(t)) /\ UNCHANGED nonLimiterVars
    \/ (\E t \in Threads : AcqDeductRead(t)) /\ UNCHANGED nonLimiterVars
    \/ (\E t \in Threads : AcqDeductStore(t)) /\ UNCHANGED nonLimiterVars

InitThreads == InitCoord /\ InitOneBreaker /\ rt = RetryIdle /\ InitSharedLimiter /\ pl = PipelineIdle
               /\ reg = NoRegistration

\* a rate limiter whose acquire is called by several threads
SpecThreads == InitThreads /\ [][NextThreads]_vars

NextPipeline ==
    \/ PipelineRunOnceCall /\ UNCHANGED <<cbVars, rt, rl, reg>>
    \/ (\E f \in Failures : PipelineDispatch(f)) /\ UNCHANGED <<cbVars, rt, rl, reg>>
    \/ PipelineRunOnceReturn /\ UNCHANGED <<cbVars, rt, rl, reg>>

InitBuiltGraph == InitPipeline /\ InitOneBreaker /\ rt = RetryIdle /\ rl = LimiterIdle
                  /\ reg = NoRegistration

\* the graph of build_graph after one envelope was submitted to a pipeline node
SpecPipeline == InitBuiltGraph /\ [][NextPipeline]_vars

NextClient ==
    \/ (\E n \in Names, f \in Fns : register_node(n, f)) /\ UNCHANGED nonCoordVars
    \/ (\E s \in Names, t \in Names : add_edge(s, t)) /\ UNCHANGED nonCoordVars
    \/ (\E m \in FactoryMessages(nextId + 1) : Submit(m)) /\ UNCHANGED nonCoordVars
    \/ RunOnceCall /\ UNCHANGED nonCoordVars
    \/ (\E e \in EmitSpecs, r \in Results, x \in BOOLEAN : DispatchNode(e, r, x)) /\ UNCHANGED nonCoordVars
    \/ DispatchUnregistered /\ UNCHANGED nonCoordVars
    \/ RunOnceReturn /\ UNCHANGED nonCoordVars
    \/ (\E c \in QueryCids : Query(c)) /\ UNCHANGED nonCoordVars

\* The coordinator with every operation a client can call: register_node,
\* add_edge, send, run_once and get_conversation_events.
SpecClient == Init /\ [][NextClient]_vars

NextCycle ==
    \/ RunOnceCall /\ UNCHANGED nonCoordVars
    \/ CycleDispatch /\ UNCHANGED nonCoordVars
    \/ DispatchUnregistered /\ UNCHANGED nonCoordVars
    \/ RunOnceReturn /\ UNCHANGED nonCoordVars

InitCyclic == InitCycle /\ InitOneBreaker /\ rt = RetryIdle /\ rl = LimiterIdle /\ pl = PipelineIdle
              /\ reg = NoRegistration

\* run_once on graphs with and without cycles, after one submission
SpecCycle == InitCyclic /\ [][NextCycle]_vars

NextRegistry ==
    \/ (\E n \in Names, f \in Behaviours : Register(n, f)) /\ UNCHANGED <<cbVars, rt, rl, pl>>
    \/ (\E s \in Names, t \in Names : add_edge(s, t)) /\ UNCHANGED nonCoordVars
    \/ (\E m \in FactoryMessages(nextId + 1) : Submit(m)) /\ UNCHANGED nonCoordVars
    \/ RunOnceCall /\ UNCHANGED nonCoordVars
    \/ (\E r \in Results, x \in BOOLEAN : DispatchNode(<<>>, r, x)) /\ UNCHANGED nonCoordVars
    \/ DispatchUnregistered /\ UNCHANGED nonCoordVars
    \/ RunOnceReturn /\ UNCHANGED nonCoordVars

\* The coordinator whose nodes are registered again with another behaviour; the
\* behaviours return or raise and send nothing themselves.
SpecRegistry == Init /\ [][NextRegistry]_vars

InitAliasGraph == InitAlias /\ InitOneBreaker /\ rt = RetryIdle /\ rl = LimiterIdle
                  /\ reg = NoRegistration

\* the graph of build_graph after one envelope was submitted under any name of a
\* pipeline node
SpecAlias == InitAliasGraph /\ [][NextPipeline]_vars

\* With max_attempts=3 the loop of the wrapper never ends without break, so
\* RetryLoopEnds has no step here.
NextGuarded ==
    \/ Tick /\ UNCHANGED nonBreakerVars
    \/ CallRejected /\ UNCHANGED nonBreakerVars
    \/ CallReturn /\ UNCHANGED nonBreakerVars
    \/ GuardedEnter /\ UNCHANGED <<coordVars, rl, pl, reg>>
    \/ RetryTimeout /\ UNCHANGED nonRetryVars
    \/ RetryInvoke /\ UNCHANGED nonRetryVars
    \/ (\E d \in FuncDurations : RetryFuncReturns(d)) /\ UNCHANGED nonRetryVars
    \/ (\E k \in FailureKinds, d \in FuncDurations, r \in 0..(JitterSteps - 1) :
            RetryFuncFails(k, d, r)) /\ UNCHANGED nonRetryVars
    \/ (\E k \in FailureKinds, d \in FuncDurations : RetryFuncRaisesOther(k, d))
            /\ UNCHANGED nonRetryVars
    \/ GuardedExit /\ UNCHANGED <<coordVars, rl, pl, reg>>

\* a tool wrapped by retry_with_backoff and, around that, by a circuit breaker
SpecGuarded == InitBreaker /\ [][NextGuarded]_vars

\* run_once is a loop in the thread of its caller, and every node call ends: a
\* step that can be taken is taken.
FairSpecPipeline == SpecPipeline /\ WF_vars(NextPipeline)

----------------------------------------------------------------------------
(* Properties of the coordinator *)

\* number of entries of sequence q that carry submission number k
Occurrences(q, k) == Cardinality({i \in 1..Len(q) : q[i].id = k})

\* the envelopes still queued or already logged, oldest first
AllEnvelopes == consumers_log \o msg_queue

\* the entry of the log or the queue with submission number k
EnvelopeOf(k) == AllEnvelopes[CHOOSE i \in 1..Len(AllEnvelopes) : AllEnvelopes[i].id = k]

\* this step is one iteration of the loop of run_once
IsDispatchStep == pc = "draining" /\ consumers_log' # consumers_log

\* C1: every envelope handed to send (by a caller, by a node, by edge routing) is
\* at any time either still queued or logged, once and only once, whatever became
\* of its dispatch; with the queue empty it is exactly once in the result of
\* get_conversation_events().
C1_ExactlyOnce ==
    \A k \in 1..nextId :
        /\ Occurrences(msg_queue, k) + Occurrences(consumers_log, k) = 1
        /\ msg_queue = <<>> =>
              Occurrences(get_conversation_events(consumers_log, NoneCid), k) = 1

\* C1 witness: a drained queue after a caller's, a node's and a routed envelope
\* were dispatched in a call in which a node raised.
C1_Witness ==
    /\ msg_queue = <<>>
    /\ raisedInRun
    /\ \A o \in {"ext", "emit", "route"} :
          \E i \in 1..Len(consumers_log) : consumers_log[i].origin = o

\* C2 (the claim as stated): a follow-up envelope built by edge routing carries
\* the conversation id of the envelope whose dispatch produced it.
C2_RoutedKeepsConversation ==
    \A i \in 1..Len(AllEnvelopes) :
        AllEnvelopes[i].origin = "route" =>
            get_conversation_id(AllEnvelopes[i])
                = get_conversation_id(EnvelopeOf(AllEnvelopes[i].cause))

\* the follow-ups of the envelope with number k that edge routing put on queue q
RoutedFrom(q, k) == SelectSeq(q, LAMBDA e : e.origin = "route" /\ e.cause = k)

\* C3: when the dispatched node returns a routable (truthy) result, the queue
\* receives exactly one routed follow-up per entry of the node's successor list,
\* addressed to that entry, in the order of the list (none without edges).
C3_OnePerEdge ==
    [][ (IsDispatchStep /\ last'.status = "returned" /\ Truthy(last'.result)) =>
            LET m == Head(msg_queue)
                R == RoutedFrom(msg_queue', m.id)
            IN /\ Len(R) = Len(edges[m.name])
               /\ \A i \in 1..Len(R) : R[i].name = edges[m.name][i] ]_vars

\* C3 witness: an edge declared twice has put two follow-ups for the same target,
\* from the same dispatch, on the queue.
C3_Witness ==
    \E i \in 1..Len(msg_queue), j \in 1..Len(msg_queue) :
        /\ i < j
        /\ msg_queue[i].origin = "route" /\ msg_queue[j].origin = "route"
        /\ msg_queue[i].cause = msg_queue[j].cause
        /\ msg_queue[i].name = msg_queue[j].name
        /\ \E n \in Names : edges[n] = <<msg_queue[i].name, msg_queue[i].name>>

\* C4: a dispatch whose node raises does not end run_once: the call goes on with
\* the envelopes that were queued behind the failed one still on the queue, and
\* run_once never hands an exception to its caller.
C4_FailureIsolation ==
    [][ /\ (IsDispatchStep /\ last'.status = "raised") =>
              /\ pc' = "draining"
              /\ SubSeq(msg_queue', 1, Len(msg_queue) - 1) = Tail(msg_queue)
        /\ ~runRaised' ]_vars

\* C4 witness: after a node raised, the same run_once call dispatched a later
\* envelope to a node that returned.
C4_Witness ==
    /\ pc = "draining"
    /\ raisedInRun
    /\ last.status = "returned"

\* C7: envelopes are logged in the order in which they were handed to send, the
\* ones enqueued during the call included; run_once returns only on an empty
\* queue, and on an empty queue it returns without changing anything.
C7_FifoDrain ==
    [][ /\ \A i \in 1..Len(AllEnvelopes') : AllEnvelopes'[i].id = i
        /\ (pc = "draining" /\ pc' = "idle") => msg_queue' = <<>>
        /\ (pc = "draining" /\ msg_queue = <<>>) =>
              /\ pc' = "idle"
              /\ UNCHANGED <<nodes, edges, msg_queue, consumers_log, nextId>> ]_vars

\* C7 witness: the current run_once call has dispatched an envelope that was
\* enqueued during a call (by a node or by edge routing), and the queue is empty.
C7_Witness ==
    /\ pc = "draining"
    /\ msg_queue = <<>>
    /\ last.status # "none"
    /\ consumers_log[Len(consumers_log)].origin # "ext"

----------------------------------------------------------------------------
(* Properties of send and get_conversation_events *)

\* the positions of the log whose envelope carries conversation id c
Matching(log, c) ==
    {i \in 1..Len(log) :
        c = NoneCid \/ (log[i].hasMeta /\ log[i].cid # AbsentCid /\ log[i].cid = c)}

\* the j-th smallest element of the set of numbers S
Nth(S, j) == CHOOSE i \in S : Cardinality({x \in S : x < i}) = j - 1

\* C5: get_conversation_events(id) returns the logged envelopes whose conversation
\* id is id, all of them and only them, in log order, and the whole log when no
\* id is given; the call changes neither the log nor the queue.
C5_QueryFilters ==
    [][ lastQuery'.asked =>
          /\ LET idx == Matching(consumers_log', lastQuery'.cid)
             IN /\ Len(lastQuery'.events) = Cardinality(idx)
                /\ \A j \in 1..Len(lastQuery'.events) :
                      lastQuery'.events[j] = consumers_log'[Nth(idx, j)]
          /\ UNCHANGED <<consumers_log, msg_queue>> ]_vars

\* C5 witness: a query by id returned some entries of the log and left out others.
C5_Witness ==
    /\ lastQuery.asked
    /\ lastQuery.cid # NoneCid
    /\ lastQuery.events # <<>>
    /\ Len(lastQuery.events) < Len(consumers_log)

\* C6 (the claim as stated): every queued envelope has metadata with a timestamp
\* and a conversation id that is not None.
C6_QueuedMetadataComplete ==
    \A i \in 1..Len(msg_queue) :
        /\ msg_queue[i].hasMeta
        /\ msg_queue[i].ts
        /\ msg_queue[i].cid \notin {NoneCid, AbsentCid}

----------------------------------------------------------------------------
(* Properties of the circuit breaker *)

\* this step is a call arriving at _call
IsCallStep == call.pos = "idle" /\ call'.pos # "idle"

\* this step is func ending
IsExitStep == call.pos = "in_func" /\ call'.pos = "idle"

\* C8: a call arriving at a closed breaker reaches the operation; the failure that
\* makes failure_threshold recorded failures in a row leaves the breaker open; a
\* call arriving after that many failures in a row, less than recovery_timeout
\* after the last of them, is rejected and does not reach the operation.
C8_ClosedToOpen ==
    [][ /\ (IsCallStep /\ cb.state = "closed") => call'.pos = "in_func"
        /\ (IsExitStep /\ cbObs'.consec > cbObs.consec
                /\ cbObs'.consec >= cb.failure_threshold) => cb'.state = "open"
        /\ (IsCallStep /\ cbObs.consec >= cb.failure_threshold
                /\ now - cbObs.lastFail < cb.recovery_timeout) =>
              (call'.pos = "rejected" /\ cb' = cb) ]_vars

\* C8 witness: a breaker with a threshold above 1 has opened and then rejected a
\* call inside the recovery timeout.
C8_Witness ==
    /\ cb.failure_threshold > 1
    /\ cbObs.consec >= cb.failure_threshold
    /\ cb.state = "open"
    /\ call.pos = "rejected"

\* C9 (the claim as stated): after the recovery timeout only one call reaches the
\* operation before an outcome has been recorded.
C9_SingleTrial == cbObs.unrecorded <= 1

\* C10: a trial call that succeeds leaves failure_count = 0 and the breaker
\* closed; a trial call that fails leaves the breaker open with last_failure_time
\* set to the time of that failure, and calls arriving less than recovery_timeout
\* after it are rejected.
C10_TrialOutcome ==
    [][ /\ (IsExitStep /\ call.trial /\ cbObs'.trialResult = "ok") =>
              (cb'.failure_count = 0 /\ cb'.state = "closed")
        /\ (IsExitStep /\ call.trial /\ cbObs'.trialResult = "fail") =>
              (cb'.state = "open" /\ cb'.last_failure_time = now)
        /\ (IsCallStep /\ cbObs.trialResult = "fail"
                /\ now - cbObs.lastFail < cb.recovery_timeout) =>
              call'.pos = "rejected" ]_vars

\* C10 witness: a call was rejected after the trial call had failed, with a
\* recovery timeout longer than one second.
C10_Witness ==
    /\ cbObs.trialResult = "fail"
    /\ cb.recovery_timeout > 1
    /\ call.pos = "rejected"
    /\ now > cbObs.lastFail

----------------------------------------------------------------------------
(* Properties of retry_with_backoff *)

\* C11: func is invoked at most max_attempts times; after the first successful
\* invocation the wrapper has returned and invokes nothing more; when all
\* max_attempts invocations failed with an exception retried on, the wrapper has
\* raised the last of them, has slept max_attempts - 1 times and has not slept
\* after the last invocation.
C11_AttemptsAndExhaustion ==
    /\ rt.calls <= rt.max_attempts
    /\ rt.successes >= 1 =>
          /\ rt.successes = 1
          /\ rt.pos = "done"
          /\ rt.result.kind = "returned"
          /\ rt.lastOutcome = "ok"
    /\ (rt.pos = "done" /\ rt.calls >= 1 /\ rt.calls = rt.max_attempts
            /\ rt.lastOutcome \in rt.exceptions) =>
          /\ rt.result = [kind |-> "raised", exc |-> rt.lastOutcome]
          /\ rt.sleeps = rt.max_attempts - 1
          /\ rt.clock = rt.funcEnd

\* C11 witness: three invocations failed, the last one with E2, and the wrapper
\* raised E2 after two sleeps.
C11_Witness ==
    /\ rt.pos = "done"
    /\ rt.max_attempts = 3
    /\ rt.calls = 3
    /\ rt.sleeps = 2
    /\ rt.result = [kind |-> "raised", exc |-> "E2"]

\* C12: when func raises an exception of a class that is not retried on, the
\* wrapper ends in that step by raising this exception, without a sleep, and it
\* invokes nothing afterwards, whatever the number of attempts left.
C12_NonRecoverablePropagates ==
    [][ /\ (rt.pos = "in_func" /\ rt'.pos # "in_func"
                /\ rt'.lastOutcome \notin (rt.exceptions \cup {"ok"})) =>
              /\ rt'.pos = "done"
              /\ rt'.result = [kind |-> "raised", exc |-> rt'.lastOutcome]
              /\ rt'.sleeps = rt.sleeps
              /\ rt'.clock = rt'.funcEnd
        /\ rt.pos = "done" => rt' = rt ]_vars

\* C12 witness: on its second invocation, with an attempt left, func raised X
\* and the wrapper raised X.
C12_Witness ==
    /\ rt.pos = "done"
    /\ rt.max_attempts = 3
    /\ rt.calls = 2
    /\ rt.sleeps = 1
    /\ rt.result = [kind |-> "raised", exc |-> "X"]

\* C13 (the claim as stated): with a timeout T the time elapsed since the call
\* of the wrapper never exceeds T, func is never invoked after the deadline, and
\* a wrapper that finds the deadline passed raises TimeoutError.
C13_DeadlineBoundsElapsed ==
    rt.timeout # NoTimeout =>
        /\ rt.clock - rt.start_time <= rt.timeout * TicksPerSecond
        /\ rt.invokedAt - rt.start_time <= rt.timeout * TicksPerSecond
        /\ rt.result.exc = "TimeoutError" => rt.calls < rt.max_attempts

\* C14: for every strategy the delay before jitter does not decrease with the
\* attempt number and never exceeds max_delay; the delay slept is the capped
\* delay without jitter, and between 50% and 100% of it with jitter.
C14_DelayBounds ==
    /\ \A n \in 0..MaxAttempts :
          /\ CappedDelay(rt.strategy, n, rt.base_delay, rt.max_delay) <= rt.max_delay
          /\ CappedDelay(rt.strategy, n + 1, rt.base_delay, rt.max_delay)
                >= CappedDelay(rt.strategy, n, rt.base_delay, rt.max_delay)
    /\ rt.delay.attempt >= 0 =>
          /\ rt.delay.capped <= rt.max_delay
          /\ rt.delay.slept <= rt.delay.capped * TicksPerSecond
          /\ 2 * rt.delay.slept >= rt.delay.capped * TicksPerSecond
          /\ ~rt.jitter => rt.delay.slept = rt.delay.capped * TicksPerSecond
    /\ rt.prevDelay.attempt >= 0 => rt.delay.capped >= rt.prevDelay.capped

\* C14 witness: an exponential wrapper with jitter slept twice; the second
\* delay was cut down to max_delay and the sleep was shorter than max_delay.
C14_Witness ==
    /\ rt.strategy = "exponential_backoff"
    /\ rt.jitter
    /\ rt.prevDelay.attempt = 0
    /\ rt.delay.attempt = 1
    /\ rt.prevDelay.capped < rt.delay.capped
    /\ StrategyDelay(rt.strategy, 1, rt.base_delay) > rt.max_delay
    /\ rt.delay.capped = rt.max_delay
    /\ rt.delay.slept < rt.max_delay * TicksPerSecond

----------------------------------------------------------------------------
(* Properties of RateLimiter *)

\* this step is one acquire call of the caller of SpecLimiter
IsAcquireStep == rl'.clock = rl.clock /\ rl'.calls = rl.calls + 1

\* C15: on a new limiter of capacity C, the first C immediate acquire(1) calls
\* succeed, the next immediate one fails and leaves the token count as it was,
\* and of the calls made one token's refill time (1/refill_rate second) after
\* the creation the first succeeds and the second fails.
C15_BucketScenario ==
    [][ (IsAcquireStep /\ rl'.scenario) =>
            LET k == rl'.calls
            IN /\ k <= rl.max_tokens => rl'.lastOk
               /\ k = rl.max_tokens + 1 => (~rl'.lastOk /\ rl'.tokens = rl.tokens)
               /\ k = rl.max_tokens + 2 => rl'.lastOk
               /\ k = rl.max_tokens + 3 => ~rl'.lastOk ]_vars

\* C15 witness: the scenario has been played to its end on a limiter of
\* capacity 5 refilled at 1 token per second.
C15_Witness ==
    /\ rl.max_tokens = 5
    /\ rl.refill_rate = 1
    /\ rl.scenario
    /\ rl.calls = rl.max_tokens + 3
    /\ rl.clock = TicksPerSecond
    /\ ~rl.lastOk

\* C16 (the claim as stated): with concurrent callers the token count is never
\* negative and the tokens granted never exceed the initial capacity plus the
\* refill.
C16_NoOverdraft ==
    /\ rl.tokens >= 0
    /\ rl.granted <= Tokens(rl.max_tokens) + rl.clock * rl.refill_rate

----------------------------------------------------------------------------
(* Properties of the pipeline *)

\* the conversation id of the run: that of the submitted envelope
RunId == get_conversation_id(consumers_log[1])

\* the log holds, under the run's id, an envelope for name n whose payload
\* satisfies Shape
LoggedForRun(n, Shape(_)) ==
    LET events == get_conversation_events(consumers_log, RunId)
    IN  \E i \in 1..Len(events) : events[i].name = n /\ Shape(events[i].content)

\* a RepoNode envelope with a repository URL was submitted, the queue has been
\* drained by run_once, and no step of any node call raised
CleanRepoRun ==
    /\ pl.drained
    /\ ~pl.failures
    /\ consumers_log[1].name = "RepoNode"
    /\ HasRepoUrl(consumers_log[1].content)

AnyPayload(content) == TRUE
IsDraftReady(content) == content = "draft_ready" /\ HasMdPath(content)
StatusOrError(content) == HasStatus(content) \/ HasError(content)

\* C17 (the claim as stated): whatever fails, no node raises, and after draining
\* the log holds, under the run's id, a Coordinator-addressed envelope with a
\* status or an error.
C17_TerminalEnvelope ==
    pl.drained => (~pl.raised /\ LoggedForRun("Coordinator", StatusOrError))

\* C18: after a RepoNode envelope was submitted and every collaborator succeeded,
\* once run_once has returned the events of the run's id hold a Coordinator-
\* addressed envelope with status draft_ready and a document path, an
\* AnalyzerNode-addressed and a WriterNode-addressed envelope.
C18_EndToEnd ==
    CleanRepoRun =>
        /\ LoggedForRun("Coordinator", IsDraftReady)
        /\ LoggedForRun("AnalyzerNode", AnyPayload)
        /\ LoggedForRun("WriterNode", AnyPayload)

\* C18 witness: the run of a RepoNode envelope is complete with the draft_ready
\* envelope logged under the run's id.
C18_Witness ==
    /\ CleanRepoRun
    /\ msg_queue = <<>>
    /\ LoggedForRun("Coordinator", IsDraftReady)
    /\ pl.calls["clone_repo"] = 1

\* C19 (the claim as stated): in such a run each collaborator was invoked
\* exactly once.
C19_EachCollaboratorOnce ==
    CleanRepoRun =>
        \A c \in {"clone_repo", "list_files", "extract_metrics",
                  "summarize_text_for_academic", "groq_chat"} : pl.calls[c] = 1

\* C20: a call of repo_node or analyzer_node whose work fails does not raise and
\* hands exactly one envelope to the coordinator: it is addressed to Coordinator,
\* its payload holds an error, it carries the conversation id of the envelope
\* being handled, and none goes to a successor of the node.
C20_ErrorPropagation ==
    [][ (IsDispatchStep /\ pl'.call.fn \in {"repo_node", "analyzer_node"} /\ pl'.call.failed) =>
            /\ ~pl'.call.raises
            /\ Len(pl'.call.emitted) = 1
            /\ pl'.call.emitted[1].name = "Coordinator"
            /\ HasError(pl'.call.emitted[1].content)
            /\ get_conversation_id(pl'.call.emitted[1]) = pl'.call.cid
            /\ \A i \in 1..Len(pl'.call.emitted), j \in 1..Len(edges[Head(msg_queue).name]) :
                  pl'.call.emitted[i].name # edges[Head(msg_queue).name][j] ]_vars

\* C20 witness: extract_metrics raised in analyzer_node, which emitted an error
\* envelope.
C20_Witness ==
    /\ pl.call.fn = "analyzer_node"
    /\ pl.call.failed
    /\ pl.calls["extract_metrics"] = 1
    /\ pl.calls["summarize_text_for_academic"] = 0
    /\ Len(pl.call.emitted) = 1
    /\ HasError(pl.call.emitted[1].content)

----------------------------------------------------------------------------
(* Properties of dispatch and edge routing *)

C22_LastWriteWins ==
    [][ /\ (IsDispatchStep /\ Head(msg_queue).name = reg.name) =>
              /\ last'.fn = reg.fn
              /\ (last'.status = "returned" /\ Truthy(last'.result)) =>
                    LET R == RoutedFrom(msg_queue', Head(msg_queue).id)
                    IN /\ Len(R) = Len(edges[reg.name])
                       /\ \A i \in 1..Len(R) : R[i].name = edges[reg.name][i]
        /\ (reg' # reg \/ nodes' # nodes) =>
              /\ nodes'[reg'.name] = reg'.fn
              /\ \A n \in Names \ {reg'.name} : nodes'[n] = nodes[n]
              /\ UNCHANGED <<edges, msg_queue, consumers_log>> ]_vars

\* C22 witness: a name with an edge was registered again with another behaviour,
\* and the envelope dispatched last went to the new behaviour and was routed on.
C22_Witness ==
    /\ reg.old \notin {NoFn, reg.fn}
    /\ pc = "draining"
    /\ consumers_log # <<>>
    /\ consumers_log[Len(consumers_log)].name = reg.name
    /\ last.fn = reg.fn
    /\ RoutedFrom(msg_queue, consumers_log[Len(consumers_log)].id) # <<>>

\* the envelopes of queue q that edge routing built
Routed(q) == SelectSeq(q, LAMBDA e : e.origin = "route")

\* C23: when a node raises while handling an envelope, edge routing builds no
\* follow-up for that envelope, whatever edges its name has; the follow-ups of
\* other envelopes stay queued, and a later dispatch whose node returns a truthy
\* result is routed along its edges as usual.
C23_NoRoutingOnFailure ==
    [][ /\ (IsDispatchStep /\ last'.status = "raised") =>
              /\ RoutedFrom(msg_queue', Head(msg_queue).id) = <<>>
              /\ Routed(msg_queue') = Routed(Tail(msg_queue))
        /\ (IsDispatchStep /\ raisedInRun /\ last'.status = "returned" /\ Truthy(last'.result)) =>
              Len(RoutedFrom(msg_queue', Head(msg_queue).id)) = Len(edges[Head(msg_queue).name]) ]_vars

\* C23 witness: a node whose name has an edge has just raised, and the follow-up
\* of another envelope is on the queue.
C23_Witness ==
    /\ pc = "draining"
    /\ last.status = "raised"
    /\ edges[consumers_log[Len(consumers_log)].name] # <<>>
    /\ Routed(msg_queue) # <<>>

\* C24 (the claim as stated): a dispatch enqueues edge follow-ups only if the
\* name has edges and the node returned a non-empty result that holds a payload;
\* a node that returns nothing, an empty result or a result without "content"
\* causes no follow-up.
C24_RoutingNeedsPayload ==
    [][ (IsDispatchStep /\ RoutedFrom(msg_queue', Head(msg_queue).id) # <<>>) =>
            /\ edges[Head(msg_queue).name] # <<>>
            /\ last'.status = "returned"
            /\ last'.result.kind = "dict"
            /\ last'.result.content # NoContent ]_vars

\* C25: every follow-up that edge routing builds carries the payload of the result
\* the dispatched node returned (the empty payload when the result has none), and
\* every edge target gets that same payload.
C25_RoutedPayload ==
    [][ (IsDispatchStep /\ last'.status = "returned") =>
            LET R == RoutedFrom(msg_queue', Head(msg_queue).id)
            IN /\ \A i \in 1..Len(R) :
                    R[i].content = IF last'.result.content = NoContent
                                   THEN EmptyContent ELSE last'.result.content
               /\ \A i \in 1..Len(R), j \in 1..Len(R) : R[i].content = R[j].content ]_vars

\* C25 witness: one result with a payload was routed to two different targets.
C25_Witness ==
    \E i \in 1..Len(msg_queue), j \in 1..Len(msg_queue) :
        /\ msg_queue[i].origin = "route" /\ msg_queue[j].origin = "route"
        /\ msg_queue[i].cause = msg_queue[j].cause
        /\ msg_queue[i].name # msg_queue[j].name
        /\ msg_queue[i].content \in ResultPayloads
        /\ last.result.content = msg_queue[i].content

\* envelope e was derived from another: a node emitted it or edge routing built it
IsDerived(e) == e.origin \in {"emit", "route"}

\* C26: an envelope derived from another is logged strictly after its cause, and
\* is not dispatched before the node handling the cause has returned: the step
\* that dispatches the cause logs the cause alone and leaves every envelope
\* derived from it on the queue, behind the envelopes that were waiting.
C26_CausalOrder ==
    [][ /\ \A i \in 1..Len(consumers_log') :
              IsDerived(consumers_log'[i]) =>
                  \E j \in 1..(i - 1) : consumers_log'[j].id = consumers_log'[i].cause
        /\ IsDispatchStep =>
              /\ consumers_log' = Append(consumers_log, Head(msg_queue))
              /\ \A i \in 1..Len(msg_queue') :
                    msg_queue'[i].id > nextId =>
                        /\ IsDerived(msg_queue'[i])
                        /\ msg_queue'[i].cause = Head(msg_queue).id
                        /\ i > Len(msg_queue) - 1 ]_vars

\* C26 witness: the log holds an envelope a node emitted and a follow-up of edge
\* routing, each behind the envelope it was derived from.
C26_Witness ==
    \E i \in 1..Len(consumers_log), j \in 1..Len(consumers_log) :
        /\ consumers_log[i].origin = "emit"
        /\ consumers_log[j].origin = "route"
        /\ \E k \in 1..(i - 1) : consumers_log[k].id = consumers_log[i].cause
        /\ \E k \in 1..(j - 1) : consumers_log[k].id = consumers_log[j].cause

\* C27: the log is append-only: whatever the client calls, the log before a step
\* is a prefix of the log after it; only a dispatch adds to the log, one entry at
\* its end, the envelope taken off the queue; register_node, add_edge, send and
\* get_conversation_events leave the log as it is.
C27_AppendOnly ==
    [][ /\ Len(consumers_log') >= Len(consumers_log)
        /\ SubSeq(consumers_log', 1, Len(consumers_log)) = consumers_log
        /\ consumers_log' # consumers_log =>
              /\ pc = "draining"
              /\ msg_queue # <<>>
              /\ consumers_log' = Append(consumers_log, Head(msg_queue))
        /\ pc = "idle" => consumers_log' = consumers_log ]_vars

\* C27 witness: with two envelopes logged and an edge declared, a further envelope
\* was submitted and the log was queried, in a state between two run_once calls.
C27_Witness ==
    /\ pc = "idle"
    /\ Len(consumers_log) >= 2
    /\ msg_queue # <<>>
    /\ lastQuery.asked
    /\ \E n \in Names : edges[n] # <<>> /\ nodes[n] # NoFn

----------------------------------------------------------------------------
(* Termination of run_once *)

\* the names edge routing sends the result of name n to
Successors(n) == {edges[n][i] : i \in 1..Len(edges[n])}

\* the names reached from the names of S in at most k routing steps, each made
\* from a name whose behaviour returns a non-empty result
RECURSIVE RoutedTo(_, _)
RoutedTo(S, k) ==
    IF k = 0 THEN S
    ELSE RoutedTo(S \cup UNION {Successors(n) : n \in {x \in S : nodes[x] = "returns_dict"}}, k - 1)

\* n is on a cycle of edges whose nodes all return non-empty results
OnLiveCycle(n) ==
    /\ nodes[n] = "returns_dict"
    /\ n \in RoutedTo(Successors(n), Cardinality(Names))

\* C28: run_once has no bound on its dispatches: when the name of the submitted
\* envelope is on a cycle of edges whose nodes return non-empty results, then from
\* the first dispatch on the queue is never empty when run_once looks at it, and
\* the call never returns.
C28_CycleNeverReturns ==
    (AllEnvelopes # <<>> /\ OnLiveCycle(AllEnvelopes[1].name) /\ consumers_log # <<>>) =>
        (pc = "draining" /\ msg_queue # <<>>)

\* C28 witness: with the edge from a name to itself, the one submitted envelope
\* has caused as many dispatches as the bound lets through, and the queue is
\* still not empty.
C28_Witness ==
    /\ consumers_log # <<>>
    /\ edges[consumers_log[1].name] = <<consumers_log[1].name>>
    /\ OnLiveCycle(consumers_log[1].name)
    /\ Len(consumers_log) = MaxCycleEnvelopes - 1
    /\ pc = "draining"
    /\ msg_queue # <<>>

\* C29: on the graph of build_graph run_once terminates: the call made after one
\* envelope was submitted returns with the queue empty, and the number of
\* dispatches the envelope causes is bounded: it is 16 at most (a RepoNode envelope
\* with a repository URL, every collaborator succeeding), well within the number
\* of envelopes the model lets through.
C29_PipelineTerminates ==
    /\ <>(pl.drained /\ msg_queue = <<>>)
    /\ [](Len(consumers_log) <= 16 /\ nextId < MaxPipelineEnvelopes)

\* C29 witness: run_once has returned after the largest number of dispatches.
C29_Witness ==
    /\ pl.drained
    /\ pc = "idle"
    /\ msg_queue = <<>>
    /\ Len(consumers_log) = 16

----------------------------------------------------------------------------
(* Doubled delivery on the built graph *)

\* the envelopes the step puts on the queue, in queue order
Enqueued == SubSeq(msg_queue', Len(msg_queue), Len(msg_queue'))

\* the step puts exactly two envelopes for name n on the queue: first the one the
\* node emitted, with a payload Shape holds of and the conversation id of the
\* envelope handled, then the follow-up of edge routing
Doubled(n, Shape(_)) ==
    /\ Len(Enqueued) = 2
    /\ Enqueued[1].name = n /\ Enqueued[2].name = n
    /\ Enqueued[1].origin = "emit" /\ Enqueued[2].origin = "route"
    /\ Shape(Enqueued[1].content)
    /\ get_conversation_id(Enqueued[1]) = get_conversation_id(Head(msg_queue))
    /\ Enqueued[1].cause = Head(msg_queue).id /\ Enqueued[2].cause = Head(msg_queue).id

\* the number of logged envelopes addressed to name n
LoggedFor(n) == Cardinality({i \in 1..Len(consumers_log) : consumers_log[i].name = n})

\* C30: on the built graph a successful dispatch of a RepoNode envelope puts two
\* AnalyzerNode envelopes on the queue, first the one repo_node emitted (with the
\* repository path and the run's conversation id), then the one built for the
\* edge RepoNode -> AnalyzerNode; a successful dispatch of an AnalyzerNode
\* envelope does the same for WriterNode. In a run without failures the analyzer
\* therefore handles two envelopes.
C30_DoubledDelivery ==
    [][ /\ (IsDispatchStep /\ Head(msg_queue).name = "RepoNode" /\ ~pl'.call.failed) =>
              Doubled("AnalyzerNode", HasRepoPath)
        /\ (IsDispatchStep /\ Head(msg_queue).name = "AnalyzerNode" /\ ~pl'.call.failed) =>
              Doubled("WriterNode", HasRepoPath)
        /\ (CleanRepoRun /\ msg_queue = <<>>) => LoggedFor("AnalyzerNode") = 2 ]_vars

\* C30 witness: in a run started by a RepoNode envelope the analyzer has handled
\* the envelope repo_node emitted, and two WriterNode envelopes are on the queue
\* behind the second AnalyzerNode envelope.
C30_Witness ==
    /\ pc = "draining"
    /\ consumers_log # <<>>
    /\ consumers_log[1].name = "RepoNode"
    /\ pl.call.fn = "analyzer_node"
    /\ ~pl.call.failed
    /\ Len(msg_queue) = 3
    /\ msg_queue[1].name = "AnalyzerNode" /\ msg_queue[1].origin = "route"
    /\ msg_queue[2].name = "WriterNode" /\ msg_queue[2].origin = "emit"
    /\ msg_queue[3].name = "WriterNode" /\ msg_queue[3].origin = "route"

----------------------------------------------------------------------------
(* Envelopes sent by a node that raises *)

\* the envelopes of queue q that the node handling envelope k sent itself
EmittedFrom(q, k) == SelectSeq(q, LAMBDA e : e.origin = "emit" /\ e.cause = k)

\* C31: what a node handed to send before it raised stays on the queue, behind the
\* envelopes that were waiting: the failure takes nothing back and only keeps edge
\* routing from adding follow-ups; run_once returns only after these envelopes
\* were dispatched too.
C31_EmittedSurviveFailure ==
    [][ /\ (IsDispatchStep /\ last'.status = "raised") =>
              LET E == EmittedFrom(msg_queue', Head(msg_queue).id)
              IN /\ Len(E) = nextId' - nextId
                 /\ msg_queue' = Tail(msg_queue) \o E
        /\ (pc = "draining" /\ pc' = "idle") =>
              \A k \in 1..nextId : Occurrences(consumers_log', k) = 1 ]_vars

\* C31 witness: a node whose name has an edge has just raised after sending an
\* envelope: the envelope is on the queue and no follow-up was built.
C31_Witness ==
    /\ pc = "draining"
    /\ last.status = "raised"
    /\ edges[consumers_log[Len(consumers_log)].name] # <<>>
    /\ EmittedFrom(msg_queue, consumers_log[Len(consumers_log)].id) # <<>>
    /\ RoutedFrom(msg_queue, consumers_log[Len(consumers_log)].id) = <<>>

----------------------------------------------------------------------------
(* Aliases on the built graph *)

\* the *Node name that build_graph registers with the same function as alias a
NodeNameOf(a) ==
    CASE a = "RepoAgent"      -> "RepoNode"
      [] a = "AnalyzerAgent"  -> "AnalyzerNode"
      [] a = "WriterAgent"    -> "WriterNode"
      [] a = "PDFAgent"       -> "PDFNode"
      [] a = "EvaluatorAgent" -> "EvaluatorNode"

\* C32: edges are keyed by the dispatched name: an envelope addressed to an alias
\* (RepoAgent, ...) is handled by the function registered for the corresponding
\* *Node name, and edge routing builds no follow-up for it, whatever the function
\* returns; what the function sends itself is enqueued as usual.
C32_AliasNotRouted ==
    [][ (IsDispatchStep /\ Head(msg_queue).name \in
                {"RepoAgent", "AnalyzerAgent", "WriterAgent", "PDFAgent", "EvaluatorAgent"}) =>
            /\ pl'.call.fn = nodes[NodeNameOf(Head(msg_queue).name)]
            /\ pl'.call.fn \notin {NoFn, "coordinator_node"}
            /\ RoutedFrom(msg_queue', Head(msg_queue).id) = <<>>
            /\ msg_queue' = Tail(msg_queue) \o pl'.call.emitted ]_vars

\* C32 witness: repo_node has handled a RepoAgent envelope with success, and the
\* queue holds the AnalyzerNode envelope it sent and nothing else.
C32_Witness ==
    /\ pc = "draining"
    /\ Len(consumers_log) = 1
    /\ consumers_log[1].name = "RepoAgent"
    /\ pl.call.fn = "repo_node"
    /\ ~pl.call.failed
    /\ Len(msg_queue) = 1
    /\ msg_queue[1].name = "AnalyzerNode"
    /\ msg_queue[1].origin = "emit"

----------------------------------------------------------------------------
(* Further properties of the circuit breaker *)

\* the relation between the state, the counter and the time stamp of breaker b
BreakerConsistent(b) ==
    /\ b.state = "open" =>
          (b.failure_count >= b.failure_threshold /\ b.last_failure_time # NoTime)
    /\ b.state = "closed" => b.failure_count < b.failure_threshold

\* this step is a call being rejected with CircuitBreakerOpenError
IsRejectStep == call.pos = "idle" /\ call'.pos = "rejected"

\* C33: whatever calls were made (failure_threshold >= 1): an open breaker has a
\* failure counter of at least failure_threshold and a recorded last-failure
\* time, a closed breaker has a counter below failure_threshold, and a rejected
\* call changes neither the state nor the counter nor the last-failure time.
C33_BreakerInvariant ==
    [][ /\ BreakerConsistent(cb)
        /\ BreakerConsistent(cb')
        /\ IsRejectStep => (cb.state = "open" /\ cb' = cb) ]_vars

\* C33 witness: a call is rejected by a breaker that opened again after a failed
\* trial call, its counter being above failure_threshold.
C33_Witness ==
    /\ call.pos = "rejected"
    /\ cb.state = "open"
    /\ cb.failure_count > cb.failure_threshold
    /\ cb.last_failure_time # NoTime

\* C34: when the wrapped operation raises an exception that is not in
\* expected_exception, the breaker is left as it is: the counter is neither
\* incremented nor reset and the state does not change. After a trial call that
\* ended so the breaker is still half-open, and a half-open breaker rejects no
\* call: every later call reaches the wrapped operation.
C34_UnexpectedFailure ==
    [][ /\ (IsExitStep /\ cbObs'.result = "other") =>
              /\ cb' = cb
              /\ call.trial => cb'.state = "half_open"
        /\ (cb.state = "half_open" /\ call.pos = "idle" /\ call'.pos # "idle") =>
              (call'.pos = "in_func" /\ cb'.state = "half_open") ]_vars

\* C34 witness: after the trial call ended with an exception outside
\* expected_exception, the breaker is half-open and a later call has reached the
\* wrapped operation.
C34_Witness ==
    /\ cb.state = "half_open"
    /\ call.pos = "in_func"
    /\ ~call.trial
    /\ cbObs.unrecorded >= 2
    /\ cb.failure_count >= cb.failure_threshold

----------------------------------------------------------------------------
(* A circuit breaker around a retry wrapper *)

\* C35: with the breaker around the retry wrapper, the breaker counts one failure
\* for each call of the wrapper that ends by raising (the retries exhausted, the
\* wrapper's TimeoutError, or a non-recoverable exception), however many attempts
\* the wrapper made, and nothing while the wrapper runs; a call rejected by the
\* open breaker does not start the wrapper: no attempt is made and no delay slept.
C35_BreakerAroundRetry ==
    [][ /\ (IsExitStep /\ rt.result.kind = "raised") =>
              cb'.failure_count = cb.failure_count + 1
        /\ (IsExitStep /\ rt.result.kind = "returned") => cb'.failure_count = 0
        /\ (call.pos = "in_func" /\ call'.pos = "in_func") => cb' = cb
        /\ (IsRejectStep \/ call.pos = "rejected") =>
              (rt' = rt /\ rt.pos = "unused") ]_vars

\* C35 witness: a call is rejected by a breaker that opened after counting a
\* single failure for a retry sequence of ToolMaxAttempts attempts.
C35_Witness ==
    /\ call.pos = "rejected"
    /\ cb.state = "open"
    /\ cb.failure_count = 1
    /\ rt.pos = "unused"
    /\ rt.calls = ToolMaxAttempts
    /\ rt.sleeps = ToolMaxAttempts - 1
    /\ rt.result.exc \in RetryOn

----------------------------------------------------------------------------
(* The token bucket under sequential calls *)

\* the token count that acquire computes before it compares (lines 249-253)
CountAfterRefill ==
    Min(Tokens(rl.max_tokens), rl.tokens + (rl.clock - rl.last_refill) * rl.refill_rate)

\* C36: with acquire called by one caller at a time, with n >= 0 and a clock that
\* never goes back, the token count is always between 0 and the capacity and the
\* tokens granted up to time t never exceed capacity + refill_rate * t; a call
\* acquire(n) succeeds exactly when the refilled count is at least n, a
\* successful call leaves the refilled count less n, a failed one leaves the
\* refilled count, and a call with n above the capacity fails.
C36_TokenBucketBound ==
    /\ [](/\ rl.tokens >= 0
          /\ rl.tokens <= Tokens(rl.max_tokens)
          /\ rl.granted <= Tokens(rl.max_tokens) + rl.clock * rl.refill_rate)
    /\ [][ IsAcquireStep =>
              /\ rl'.lastOk <=> (CountAfterRefill >= Tokens(rl'.lastN))
              /\ rl'.lastOk => rl'.tokens = CountAfterRefill - Tokens(rl'.lastN)
              /\ ~rl'.lastOk => rl'.tokens = CountAfterRefill
              /\ rl'.granted - rl.granted = rl.tokens
                    + Min((rl.clock - rl.last_refill) * rl.refill_rate,
                          Tokens(rl.max_tokens) - rl.tokens)
                    - rl'.tokens
              /\ rl'.lastN > rl.max_tokens => ~rl'.lastOk ]_vars

\* C36 witness: every token of the capacity and of the refill has been granted
\* (the bound is met), and the last call, for more than the capacity, failed.
C36_Witness ==
    /\ rl.clock > 0
    /\ rl.granted = Tokens(rl.max_tokens) + rl.clock * rl.refill_rate
    /\ rl.lastN > rl.max_tokens
    /\ ~rl.lastOk
    /\ rl.tokens = 0

====
